---- MODULE Spec2Model ----
(***************************************************************************)
(* Model of the local-database-editor core: the per-user connection        *)
(* registry (editor/db_manager.py), the cached introspection service       *)
(* (editor/introspection.py) and the row CRUD handlers (editor/views.py).  *)
(*                                                                         *)
(* Strings whose characters matter (aliases, schema and table names,       *)
(* cache keys) are sequences of one-character strings, so that join,       *)
(* strip and lower are computed and not assumed.                           *)
(***************************************************************************)
EXTENDS Integers, Sequences, FiniteSets, TLC

(***************************************************************************)
(* Bounds of the model                                                     *)
(***************************************************************************)
MaxUsers == 2
MaxPk == 2
MaxId == 1
MaxBatch == 2

Users == 1..MaxUsers
Pks == 1..MaxPk
Ids == 1..MaxId

(***************************************************************************)
(* Strings as sequences of characters                                      *)
(***************************************************************************)
RECURSIVE JoinWith(_, _)
\* sep.join(parts) of Python, on character sequences
JoinWith(sep, parts) ==
    IF Len(parts) = 0 THEN << >>
    ELSE IF Len(parts) = 1 THEN parts[1]
    ELSE parts[1] \o sep \o JoinWith(sep, Tail(parts))

IsSpace(ch) == ch \in {" ", "\t"}

RECURSIVE LStrip(_)
LStrip(s) == IF Len(s) > 0 /\ IsSpace(s[1]) THEN LStrip(Tail(s)) ELSE s

RECURSIVE RStrip(_)
RStrip(s) ==
    IF Len(s) > 0 /\ IsSpace(s[Len(s)]) THEN RStrip(SubSeq(s, 1, Len(s) - 1)) ELSE s

\* str.strip()
Strip(s) == RStrip(LStrip(s))

UpperLetters == <<"A", "B", "C", "D", "E", "F", "G", "H", "I", "J", "K", "L", "M", "N", "O", "P", "Q", "R", "S", "T", "U", "V", "W", "X", "Y", "Z">>
LowerLetters == <<"a", "b", "c", "d", "e", "f", "g", "h", "i", "j", "k", "l", "m", "n", "o", "p", "q", "r", "s", "t", "u", "v", "w", "x", "y", "z">>

\* the position of ch in a sequence of characters, 0 when it is not there
IndexIn(chars, ch) ==
    IF \E i \in 1..Len(chars) : chars[i] = ch
    THEN CHOOSE i \in 1..Len(chars) : chars[i] = ch
    ELSE 0

LowerAt(i, ch) == IF i = 0 THEN ch ELSE LowerLetters[i]
LowerChar(ch) == LowerAt(IndexIn(UpperLetters, ch), ch)

\* str.lower()
Lower(s) == [i \in 1..Len(s) |-> LowerChar(s[i])]

\* str.startswith(prefix)
StartsWith(s, prefix) ==
    Len(s) >= Len(prefix) /\ SubSeq(s, 1, Len(prefix)) = prefix

Digit(n) == <<"0", "1", "2", "3", "4", "5", "6", "7", "8", "9">>[n + 1]

(***************************************************************************)
(* editor/introspection.py: cache keys                                     *)
(***************************************************************************)
COLON == <<":">>
EDITOR == <<"e", "d", "i", "t", "o", "r">>
K_SCHEMAS == <<"s", "c", "h", "e", "m", "a", "s">>
K_TABLES == <<"t", "a", "b", "l", "e", "s">>
K_COLUMNS == <<"c", "o", "l", "u", "m", "n", "s">>
K_PK == <<"p", "k">>

\* _cache_key(prefix, *parts): ":".join([prefix] + list(parts))
CacheKey(prefix, parts) == JoinWith(COLON, <<prefix>> \o parts)


(***************************************************************************)
(* State                                                                   *)
(***************************************************************************)
VARIABLES
    store,      \* DatabaseConfig table: pk -> config record or NoCfg
    nextPk,     \* next auto-increment pk of the DatabaseConfig table
    databases,  \* connections.databases: alias -> connection descriptor or Absent
    handles,    \* the worker's connection wrappers: alias -> wrapper or NoHandle
    cache,      \* django cache: a function from the keys present to their entries
    pgTables,   \* the PostgreSQL catalog: existing schema name -> set of table names
    rows,       \* content of the data table: existing id -> value of column v
    seq,        \* next value of the sequence behind the data table's id column
    log,        \* statements executed by the last operation, in order
    resp,       \* the response of the last operation
    inflight    \* a request of another thread stopped inside ensure_database_connection

vars == <<store, nextPk, databases, handles, cache, pgTables, rows, seq, log, resp, inflight>>

NoCfg == [none |-> "NoCfg"]
Absent == [none |-> "Absent"]
NoHandle == [none |-> "NoHandle"]
NotConnected == [none |-> "NotConnected"]
None == [k |-> "null", v |-> "None"]
NoRequest == [none |-> "NoRequest"]

(***************************************************************************)
(* editor/models.py: DatabaseConfig                                        *)
(***************************************************************************)
Hosts == {"h1"}
Passwords == {"pw1", "pw2"}
DbNames == {"d1", "d2"}
DEFAULT == <<"d", "e", "f", "a", "u", "l", "t">>
EMPTY == << >>

\* f"user_{self.user_id}_db_{self.pk}"
AliasOf(uid, pk) ==
    <<"u", "s", "e", "r", "_">> \o <<Digit(uid)>> \o <<"_", "d", "b", "_">> \o <<Digit(pk)>>

ConfigAliases == {AliasOf(u, pk) : u \in Users, pk \in Pks}
Aliases == ConfigAliases \cup {DEFAULT}

\* str(self.port)
PortStr(port) == IF port = 5432 THEN "5432" ELSE "0"

\* DatabaseConfig.get_connection_config
GetConnectionConfig(cfg) ==
    [ENGINE |-> "django.db.backends.postgresql",
     NAME |-> cfg.database,
     USER |-> cfg.username,
     PASSWORD |-> cfg.password,
     HOST |-> cfg.host,
     PORT |-> PortStr(cfg.port),
     OPTIONS |-> [connect_timeout |-> 10],
     ATOMIC_REQUESTS |-> FALSE,
     TIME_ZONE |-> "UTC",
     AUTOCOMMIT |-> TRUE,
     CONN_HEALTH_CHECKS |-> FALSE,
     CONN_MAX_AGE |-> 0]

\* settings.DATABASES["default"]
DefaultDescriptor ==
    [ENGINE |-> "django.db.backends.sqlite3",
     NAME |-> "db.sqlite3",
     USER |-> "",
     PASSWORD |-> "",
     HOST |-> "",
     PORT |-> "",
     OPTIONS |-> [connect_timeout |-> 0],
     ATOMIC_REQUESTS |-> FALSE,
     TIME_ZONE |-> "UTC",
     AUTOCOMMIT |-> TRUE,
     CONN_HEALTH_CHECKS |-> FALSE,
     CONN_MAX_AGE |-> 0]

\* the lookup by alias alone
OwnedPksAnyUser(st, user, alias) ==
    {pk \in Pks : st[pk] # NoCfg /\ st[pk].alias = alias}

\* DatabaseConfig.objects.filter(user=user, alias=alias): the pks that match
OwnedPks(st, user, alias) ==
    {pk \in Pks : st[pk] # NoCfg /\ st[pk].user = user /\ st[pk].alias = alias}

(***************************************************************************)
(* The world a request works on: registry, wrappers, cache, statement log  *)
(* and the cache hits it observed.                                         *)
(***************************************************************************)
World(dbs, hs, c) == [databases |-> dbs, handles |-> hs, cache |-> c, log |-> << >>, hits |-> << >>]

\* connections[alias]: the wrapper of this worker, created on first use
\* from the registry entry of that moment and kept afterwards
GetHandle(w, alias) ==
    IF w.handles[alias] # NoHandle THEN w
    ELSE [w EXCEPT !.handles[alias] =
            [settings_dict |-> w.databases[alias], connection |-> NotConnected]]

\* connections[alias].close()
CloseHandle(w, alias) ==
    LET w1 == GetHandle(w, alias)
    IN [w1 EXCEPT !.handles[alias].connection = NotConnected]

\* conn.cursor(): connects with the wrapper's settings_dict when not connected
Cursor(w, alias) ==
    LET Connected(w1) ==
            IF w1.handles[alias].connection # NotConnected THEN w1
            ELSE [w1 EXCEPT !.handles[alias].connection = w1.handles[alias].settings_dict]
    IN Connected(GetHandle(w, alias))

\* cur.execute(sql, params) on the connection of alias
Execute(w, alias, sql, params) ==
    LET Sent(w1) == [w1 EXCEPT !.log = Append(@, [alias |-> alias,
                                                   via |-> w1.handles[alias].connection,
                                                   sql |-> sql,
                                                   params |-> params])]
    IN Sent(Cursor(w, alias))

\* ensure_database_connection(db_alias, user) once the config was found
EnsureDatabaseConnection(w, st, user, alias) ==
    LET cfg == st[CHOOSE pk \in OwnedPks(st, user, alias) : TRUE]
        w1 == [w EXCEPT !.databases[alias] = GetConnectionConfig(cfg)]
    IN CloseHandle(w1, alias)

\* how connections[alias].close() may end: it closed the connection, it raised
\* before giving the connection up, or it raised while closing it
CloseOutcomes == {"closed", "raised", "raised closed"}

\* try: connections[alias].close() except Exception: pass
TryCloseHandle(w, alias, close) ==
    IF close = "raised" THEN GetHandle(w, alias) ELSE CloseHandle(w, alias)

\* the removal without the test for 'default'
RemoveDatabaseConnectionAny(w, alias, close) ==
    IF w.databases[alias] # Absent
    THEN [TryCloseHandle(w, alias, close) EXCEPT !.databases[alias] = Absent]
    ELSE w

\* remove_database_connection(db_alias)
RemoveDatabaseConnection(w, alias, close) ==
    IF w.databases[alias] # Absent /\ alias # DEFAULT
    THEN [TryCloseHandle(w, alias, close) EXCEPT !.databases[alias] = Absent]
    ELSE w

(***************************************************************************)
(* django cache (LocMemCache)                                              *)
(***************************************************************************)
\* a test that takes a cached empty list for a miss ('if cached:')
CacheHasNonEmpty(c, key) == key \in DOMAIN c /\ c[key].val # << >>

\* cached = cache.get(key); cached is not None
CacheHas(c, key) == key \in DOMAIN c
\* cache.set(key, value): entries remember the scope that wrote them
CacheSet(c, key, val, scope) ==
    [k \in (DOMAIN c) \cup {key} |-> IF k = key THEN [val |-> val, scope |-> scope] ELSE c[k]]
\* cache.delete(key)
CacheDelete(c, key) == [k \in (DOMAIN c) \ {key} |-> c[k]]

(***************************************************************************)
(* The PostgreSQL side: names, ordering, table definitions                 *)
(***************************************************************************)
S_S == <<"s">>
S_SX == <<"s", ":", "x">>
S_R == <<"r">>
T_T == <<"t">>
T_XT == <<"x", ":", "t">>
\* a table without a primary key, and one whose only column is its serial key
T_NP == <<"n">>
T_Q == <<"q">>
TableNames == {T_T, T_XT}
\* the schema and table whose rows the model keeps
DataSchema == S_S
DataTable == T_T

Alphabet ==
    <<"\t", " ", "0", "1", "2", "3", "4", "5", "6", "7", "8", "9", ":">>
    \o UpperLetters \o <<"_">> \o LowerLetters
CharRank(ch) == IndexIn(Alphabet, ch)

RECURSIVE LexLess(_, _)
LexLess(a, b) ==
    IF Len(b) = 0 THEN FALSE
    ELSE IF Len(a) = 0 THEN TRUE
    ELSE IF a[1] = b[1] THEN LexLess(Tail(a), Tail(b))
    ELSE CharRank(a[1]) < CharRank(b[1])

RECURSIVE SortNames(_)
\* ORDER BY name: the names of a set in ascending order
SortNames(S) ==
    IF S = {} THEN << >>
    ELSE LET Least == CHOOSE x \in S : \A y \in S \ {x} : LexLess(x, y)
             Rest(m) == <<m>> \o SortNames(S \ {m})
         IN Rest(Least)

SeqToSet(q) == {q[i] : i \in 1..Len(q)}

NEXTVAL == "nextval('t_id_seq'::regclass)"

\* information_schema.columns of a table, by ordinal_position
ColumnsOf(table) ==
    CASE table = T_T ->
        <<[name |-> "id", data_type |-> "integer", is_nullable |-> FALSE, column_default |-> NEXTVAL],
          [name |-> "v", data_type |-> "integer", is_nullable |-> TRUE, column_default |-> "None"]>>
      [] table = T_NP ->
        <<[name |-> "a", data_type |-> "integer", is_nullable |-> FALSE, column_default |-> "None"],
          [name |-> "b", data_type |-> "text", is_nullable |-> TRUE, column_default |-> "None"]>>
      [] table = T_Q ->
        <<[name |-> "id", data_type |-> "integer", is_nullable |-> FALSE, column_default |-> NEXTVAL]>>
      [] OTHER ->
        <<[name |-> "k", data_type |-> "text", is_nullable |-> FALSE, column_default |-> "None"],
          [name |-> "w", data_type |-> "text", is_nullable |-> TRUE, column_default |-> "None"]>>

\* the PRIMARY KEY constraint of a table, by key position
PkOf(table) ==
    CASE table \in {T_T, T_Q} -> <<"id">>
      [] table = T_NP -> << >>
      [] OTHER -> <<"k">>

PgHasSchema(pg, schema) == schema \in DOMAIN pg
PgHasTable(pg, schema, table) == PgHasSchema(pg, schema) /\ table \in pg[schema]

(***************************************************************************)
(* SQL text: a statement is a sequence of pieces: literal text, an         *)
(* identifier that went through conn.ops.quote_name, or a placeholder for  *)
(* a bound parameter.                                                      *)
(***************************************************************************)
Lit(text) == [t |-> "lit", s |-> text]
\* conn.ops.quote_name(name)
QuoteName(name) == [t |-> "quoted", s |-> name]
Placeholder == [t |-> "param", s |-> "%s"]

(***************************************************************************)
(* editor/introspection.py: cached catalog queries.  Each takes the world  *)
(* and the catalog and returns the new world and the result.               *)
(***************************************************************************)
Ret(w, r) == [w |-> w, r |-> r]
Hit(w, key, scope) ==
    Ret([w EXCEPT !.hits = Append(@, [want |-> scope, got |-> w.cache[key].scope])],
        w.cache[key].val)

\* schema_name NOT IN ('pg_catalog', 'information_schema', 'pg_toast')
\* AND schema_name NOT LIKE 'pg_%'   (in LIKE, _ matches any one character)
ListedSchema(name) ==
    ~(Len(name) >= 3 /\ SubSeq(name, 1, 2) = <<"p", "g">>)

GetSchemas(w, pg, alias, refresh) ==
    LET key == CacheKey(EDITOR, <<K_SCHEMAS, alias>>)
        scope == <<"schemas", alias>>
        Fetched(w1, names) == Ret([w1 EXCEPT !.cache = CacheSet(@, key, names, scope)], names)
    IN IF ~refresh /\ CacheHas(w.cache, key) THEN Hit(w, key, scope)
       ELSE Fetched(Execute(w, alias, <<Lit("SELECT schema_name FROM information_schema.schemata")>>, << >>),
                    SortNames({n \in DOMAIN pg : ListedSchema(n)}))

GetTables(w, pg, alias, schema, refresh) ==
    LET key == CacheKey(EDITOR, <<K_TABLES, alias, schema>>)
        scope == <<"tables", alias, schema>>
        Fetched(w1, names) == Ret([w1 EXCEPT !.cache = CacheSet(@, key, names, scope)], names)
    IN IF ~refresh /\ CacheHas(w.cache, key) THEN Hit(w, key, scope)
       ELSE Fetched(Execute(w, alias,
                            <<Lit("SELECT table_name FROM information_schema.tables WHERE table_schema = "),
                              Placeholder>>, <<schema>>),
                    IF PgHasSchema(pg, schema) THEN SortNames(pg[schema]) ELSE << >>)

GetColumns(w, pg, alias, schema, table, refresh) ==
    LET key == CacheKey(EDITOR, <<K_COLUMNS, alias, schema, table>>)
        scope == <<"columns", alias, schema, table>>
        Fetched(w1, columns) == Ret([w1 EXCEPT !.cache = CacheSet(@, key, columns, scope)], columns)
    IN IF ~refresh /\ CacheHas(w.cache, key) THEN Hit(w, key, scope)
       ELSE Fetched(Execute(w, alias,
                            <<Lit("SELECT column_name, ... FROM information_schema.columns WHERE table_schema = "),
                              Placeholder, Lit(" AND table_name = "), Placeholder>>, <<schema, table>>),
                    IF PgHasTable(pg, schema, table) THEN ColumnsOf(table) ELSE << >>)

GetPrimaryKeyColumns(w, pg, alias, schema, table, refresh) ==
    LET key == CacheKey(EDITOR, <<K_PK, alias, schema, table>>)
        scope == <<"pk", alias, schema, table>>
        Fetched(w1, names) == Ret([w1 EXCEPT !.cache = CacheSet(@, key, names, scope)], names)
    IN IF ~refresh /\ CacheHas(w.cache, key) THEN Hit(w, key, scope)
       ELSE Fetched(Execute(w, alias,
                            <<Lit("SELECT kcu.column_name FROM ... WHERE tc.table_schema = "),
                              Placeholder, Lit(" AND tc.table_name = "), Placeholder>>, <<schema, table>>),
                    IF PgHasTable(pg, schema, table) THEN PkOf(table) ELSE << >>)

\* get_table_meta: r is <<columns, pk_columns>>
GetTableMeta(w, pg, alias, schema, table, refresh) ==
    LET Both(a, b) == Ret(b.w, <<a.r, b.r>>)
        WithColumns(a) == Both(a, GetPrimaryKeyColumns(a.w, pg, alias, schema, table, refresh))
    IN WithColumns(GetColumns(w, pg, alias, schema, table, refresh))

\* schema_has_tables
SchemaHasTables(w, pg, alias, schema) ==
    LET NonEmpty(a) == Ret(a.w, Len(a.r) > 0)
    IN NonEmpty(GetTables(w, pg, alias, schema, TRUE))

(***************************************************************************)
(* editor/introspection.py: create_schema, delete_schema                   *)
(***************************************************************************)
PG_CATALOG == <<"p", "g", "_", "c", "a", "t", "a", "l", "o", "g">>
INFORMATION_SCHEMA == <<"i", "n", "f", "o", "r", "m", "a", "t", "i", "o", "n", "_", "s", "c", "h", "e", "m", "a">>
PG_TOAST == <<"p", "g", "_", "t", "o", "a", "s", "t">>
PG_ == <<"p", "g", "_">>
\* system_schemas
SystemSchemas == {PG_CATALOG, INFORMATION_SCHEMA, PG_TOAST}

\* the comparison without lower()
IsSystemSchemaNameExact(name) ==
    name \in SystemSchemas \/ StartsWith(name, PG_)

\* schema_name.lower() in system_schemas or schema_name.lower().startswith('pg_')
IsSystemSchemaName(name) ==
    Lower(name) \in SystemSchemas \/ StartsWith(Lower(name), PG_)

Ok == [ok |-> TRUE, error |-> "None", n |-> 0]
Err(msg) == [ok |-> FALSE, error |-> msg, n |-> 0]
Ret3(w, pg, r) == [w |-> w, pg |-> pg, r |-> r]

PgCreateSchema(pg, name) ==
    IF name \in DOMAIN pg THEN pg
    ELSE [n \in (DOMAIN pg) \cup {name} |-> IF n = name THEN {} ELSE pg[n]]

PgDropSchema(pg, name) == [n \in (DOMAIN pg) \ {name} |-> pg[n]]

CreateSchema(w, pg, alias, schema_name) ==
    IF Len(schema_name) = 0 \/ Len(Strip(schema_name)) = 0
    THEN Ret3(w, pg, Err("Schema name cannot be empty"))
    ELSE LET name == Strip(schema_name)
         IN IF IsSystemSchemaName(name)
            THEN Ret3(w, pg, Err("Cannot create system schema"))
            ELSE LET w1 == Execute(w, alias,
                               <<Lit("CREATE SCHEMA IF NOT EXISTS "), QuoteName(name)>>, << >>)
                     w2 == [w1 EXCEPT !.cache = CacheDelete(@, CacheKey(EDITOR, <<K_SCHEMAS, alias>>))]
                 IN Ret3(w2, PgCreateSchema(pg, name), Ok)

\* a drop that leaves the entries of the schema in the cache
InvalidateTablesNone(c, alias, name, tables) == c

RECURSIVE InvalidateTables(_, _, _, _)
\* for table in tables: cache.delete(tables key); cache.delete(columns key); cache.delete(pk key)
InvalidateTables(c, alias, name, tables) ==
    IF Len(tables) = 0 THEN c
    ELSE LET c1 == CacheDelete(c, CacheKey(EDITOR, <<K_TABLES, alias, name>>))
             c2 == CacheDelete(c1, CacheKey(EDITOR, <<K_COLUMNS, alias, name, tables[1]>>))
             c3 == CacheDelete(c2, CacheKey(EDITOR, <<K_PK, alias, name, tables[1]>>))
         IN InvalidateTables(c3, alias, name, Tail(tables))

\* the table list read from the cache when one is there
DeleteSchemaTablesCached(w, pg, alias, name) == GetTables(w, pg, alias, name, FALSE)

\* tables = get_tables(db_alias, schema_name, refresh=True)
DeleteSchemaTables(w, pg, alias, name) == GetTables(w, pg, alias, name, TRUE)

\* PostgreSQL refuses DROP SCHEMA without CASCADE while objects depend on the schema
PgDropRefused(pg, name, force) == ~force /\ PgHasSchema(pg, name) /\ pg[name] # {}

DeleteSchema(w, pg, alias, schema_name, force) ==
    LET name == Strip(schema_name)
        sql == IF force
               THEN <<Lit("DROP SCHEMA IF EXISTS "), QuoteName(name), Lit(" CASCADE")>>
               ELSE <<Lit("DROP SCHEMA IF EXISTS "), QuoteName(name)>>
        \* after cur.execute: the error PostgreSQL raised, or the invalidation
        Dropped(w1, tables) ==
            IF PgDropRefused(pg, name, force)
            THEN Ret3(w1, pg, Err("cannot drop schema because other objects depend on it"))
            ELSE Ret3([w1 EXCEPT !.cache =
                          InvalidateTables(CacheDelete(@, CacheKey(EDITOR, <<K_SCHEMAS, alias>>)),
                                           alias, name, tables)],
                      PgDropSchema(pg, name), Ok)
        \* after tables = get_tables(...)
        Listed(t) ==
            IF Len(t.r) > 0 /\ ~force
            THEN Ret3(t.w, pg, [ok |-> FALSE, error |-> "contains tables", n |-> Len(t.r)])
            ELSE Dropped(Execute(t.w, alias, sql, << >>), t.r)
    IN IF Len(schema_name) = 0 \/ Len(name) = 0
       THEN Ret3(w, pg, Err("Schema name cannot be empty"))
       ELSE IF IsSystemSchemaName(name)
       THEN Ret3(w, pg, Err("Cannot delete system schema"))
       ELSE Listed(DeleteSchemaTables(GetHandle(w, alias), pg, alias, name))

\* the data table's rows disappear with the table
RowsAfter(pg, rs) == IF PgHasTable(pg, DataSchema, DataTable) THEN rs ELSE << >>
\* and so does the sequence its id column owns
SeqAfter(pg, n) == IF PgHasTable(pg, DataSchema, DataTable) THEN n ELSE 1

(***************************************************************************)
(* JSON values and editor/views.py: _coerce_value.  A value is a kind and  *)
(* its text; parsing and printing are tables over the texts of the model.  *)
(***************************************************************************)
BoolV(b) == [k |-> "bool", v |-> b]
IntV(n) == [k |-> "int", v |-> n]
FloatV(f) == [k |-> "float", v |-> f]
DecV(d) == [k |-> "dec", v |-> d]
StrV(t) == [k |-> "str", v |-> t]
Fail == [k |-> "fail", v |-> "error"]
\* an exception the conversion does not catch
Raised == [k |-> "raise", v |-> "OverflowError"]

\* str.strip() on the texts of the model
StrStrip(t) ==
    CASE t = " " -> ""
      [] t = " 7 " -> "7"
      [] t = " on " -> "on"
      [] OTHER -> t

\* str.lower() on the texts of the model
StrLower(t) ==
    CASE t = "TRUE" -> "true"
      [] t = "On" -> "on"
      [] t = "F" -> "f"
      [] t = "DESC" -> "desc"
      [] t = "Asc" -> "asc"
      [] OTHER -> t

\* val is None or (isinstance(val, str) and val.strip() == "")
\* a test that takes only null for empty
IsEmptyNullOnly(val) == val = None

IsEmpty(val) == val = None \/ (val.k = "str" /\ StrStrip(val.v) = "")

\* a conversion of integer columns that yields a float for the digits it reads
IntParseAsFloat(t) ==
    IF StrStrip(t) \in {"0", "1", "2", "3", "7"} THEN FloatV(StrStrip(t) \o ".0") ELSE Fail

\* int(text)
IntParse(t) ==
    IF StrStrip(t) \in {"0", "1", "2", "3", "7"} THEN IntV(StrStrip(t)) ELSE Fail

\* float(text)
FloatParse(t) ==
    CASE StrStrip(t) \in {"0", "0.0"} -> FloatV("0.0")
      [] StrStrip(t) \in {"1", "1.0"} -> FloatV("1.0")
      [] StrStrip(t) \in {"2", "2.0"} -> FloatV("2.0")
      [] StrStrip(t) \in {"3", "3.0"} -> FloatV("3.0")
      [] StrStrip(t) \in {"7", "7.0"} -> FloatV("7.0")
      [] StrStrip(t) = "3.14" -> FloatV("3.14")
      [] StrStrip(t) = "12.50" -> FloatV("12.5")
      [] StrStrip(t) = "1e400" -> FloatV("inf")
      [] OTHER -> Fail

\* int(float)
IntOfFloat(f) ==
    CASE f = "0.0" -> IntV("0")
      [] f = "1.0" -> IntV("1")
      [] f = "2.0" -> IntV("2")
      [] f = "3.0" -> IntV("3")
      [] f = "7.0" -> IntV("7")
      [] f = "3.14" -> IntV("3")
      [] f = "12.5" -> IntV("12")
      [] f = "inf" -> Raised
      [] OTHER -> Fail

\* str(val)
PyStr(val) == val.v

\* Decimal(text)
DecParse(t) ==
    IF StrStrip(t) \in {"0", "1", "2", "3", "7", "0.0", "1.0", "2.0", "3.0", "7.0", "3.14", "12.5", "12.50"}
    THEN DecV(StrStrip(t)) ELSE Fail

DATE_TYPES == {"date"}
TS_TYPES == {"timestamp with time zone", "timestamp without time zone"}
TIME_TYPES == {"time with time zone", "time without time zone"}
BOOL_TYPES == {"boolean"}
INT_TYPES == {"integer", "bigint", "smallint", "serial", "bigserial"}
FLOAT_TYPES == {"real", "double precision"}
DECIMAL_TYPES == {"numeric", "decimal"}

\* val is not None and (nonblank str or one of the numeric classes)
Coercible(val, classes) ==
    val # None /\ ((val.k = "str" /\ StrStrip(val.v) # "") \/ val.k \in classes)

OrElse(parsed, val) == IF parsed = Fail THEN val ELSE parsed

\* _coerce_value(val, data_type); "None" is the absent data_type
CoerceValue(val, dt) ==
    IF dt = "None" THEN val
    ELSE IF (dt \in DATE_TYPES \cup TS_TYPES \cup TIME_TYPES) /\ IsEmpty(val) THEN None
    ELSE IF dt \in BOOL_TYPES THEN
        IF IsEmpty(val) THEN None
        ELSE IF val.k = "bool" THEN val
        ELSE LET t == StrLower(StrStrip(PyStr(val)))
             IN IF t \in {"t", "true", "1", "yes", "on"} THEN BoolV("True")
                ELSE IF t \in {"f", "false", "0", "no", "off"} THEN BoolV("False")
                ELSE None
    ELSE IF dt \in INT_TYPES /\ Coercible(val, {"int", "bool", "float"}) THEN
        IF val.k \in {"int", "bool"} THEN val
        ELSE IF val.k = "float" THEN OrElse(IntOfFloat(val.v), val)
        ELSE OrElse(IntParse(val.v), val)
    ELSE IF dt \in FLOAT_TYPES /\ Coercible(val, {"int", "bool", "float"}) THEN
        IF val.k = "float" THEN val
        ELSE IF val.k = "bool" THEN FloatV(IF val.v = "True" THEN "1.0" ELSE "0.0")
        ELSE OrElse(FloatParse(val.v), val)
    ELSE IF dt \in DECIMAL_TYPES /\ Coercible(val, {"int", "bool", "float", "dec"}) THEN
        OrElse(DecParse(PyStr(val)), val)
    ELSE val

(***************************************************************************)
(* PostgreSQL: type checking of parameters and the rows of the data table  *)
(***************************************************************************)
ColumnOf(table, name) ==
    LET cs == ColumnsOf(table) IN cs[CHOOSE i \in 1..Len(cs) : cs[i].name = name]
HasColumn(table, name) == \E i \in 1..Len(ColumnsOf(table)) : ColumnsOf(table)[i].name = name

\* a value assigned to a column of the given type
PgAssignable(col, val) ==
    IF val = None THEN col.is_nullable
    ELSE IF col.data_type \in INT_TYPES THEN
        val.k \in {"int", "float", "dec"} \/ (val.k = "str" /\ IntParse(val.v) # Fail)
    ELSE TRUE

\* column = value in a WHERE clause
PgComparable(col, val) ==
    IF val = None THEN TRUE
    ELSE IF col.data_type \in INT_TYPES THEN
        val.k \in {"int", "float", "dec"} \/ (val.k = "str" /\ IntParse(val.v) # Fail)
    ELSE val.k = "str"

\* the id a primary-key parameter selects in the data table, 0 for none
PgIdOf(val) ==
    IF val # None /\ val.k \in {"int", "str"} /\ \E i \in Ids : Digit(i) = StrStrip(val.v)
    THEN CHOOSE i \in Ids : Digit(i) = StrStrip(val.v)
    ELSE 0

\* the value stored in column v
PgStored(val) == IF val # None /\ val.k = "str" THEN IntParse(val.v) ELSE val

IsDataTable(schema, table) == schema = DataSchema /\ table = DataTable

\* the state of one transaction: working rows, aborted flag
Tx(rs) == [rows |-> rs, aborted |-> FALSE]
DbOk(tx, n) == [tx |-> tx, ok |-> TRUE, rowcount |-> n, error |-> "None"]
DbError(tx, msg) == [tx |-> [tx EXCEPT !.aborted = TRUE], ok |-> FALSE, rowcount |-> 0, error |-> msg]

\* a statement sent inside a transaction that an earlier error aborted fails
\* ("current transaction is aborted, commands ignored until end of
\* transaction block"); otherwise names and types are checked, then rows change
PgUpdate(tx, pg, schema, table, setCols, setVals, pkCols, whereVals) ==
    IF tx.aborted THEN DbError(tx, "current transaction is aborted")
    ELSE IF ~PgHasTable(pg, schema, table) THEN DbError(tx, "relation does not exist")
    ELSE IF \E i \in 1..Len(setCols) : ~HasColumn(table, setCols[i]) THEN DbError(tx, "column does not exist")
    ELSE IF \E i \in 1..Len(pkCols) : ~HasColumn(table, pkCols[i]) THEN DbError(tx, "column does not exist")
    ELSE IF \E i \in 1..Len(setCols) : ~PgAssignable(ColumnOf(table, setCols[i]), setVals[i])
         THEN DbError(tx, "invalid input value")
    ELSE IF \E i \in 1..Len(pkCols) : ~PgComparable(ColumnOf(table, pkCols[i]), whereVals[i])
         THEN DbError(tx, "invalid input syntax")
    ELSE IF IsDataTable(schema, table) /\ PgIdOf(whereVals[1]) \in DOMAIN tx.rows
         THEN DbOk([tx EXCEPT !.rows[PgIdOf(whereVals[1])] = PgStored(setVals[1])], 1)
    ELSE DbOk(tx, 0)

PgDelete(tx, pg, schema, table, pkCols, whereVals) ==
    IF tx.aborted THEN DbError(tx, "current transaction is aborted")
    ELSE IF ~PgHasTable(pg, schema, table) THEN DbError(tx, "relation does not exist")
    ELSE IF \E i \in 1..Len(pkCols) : ~HasColumn(table, pkCols[i]) THEN DbError(tx, "column does not exist")
    ELSE IF \E i \in 1..Len(pkCols) : ~PgComparable(ColumnOf(table, pkCols[i]), whereVals[i])
         THEN DbError(tx, "invalid input syntax")
    ELSE IF IsDataTable(schema, table) /\ PgIdOf(whereVals[1]) \in DOMAIN tx.rows
         THEN DbOk([tx EXCEPT !.rows = [i \in (DOMAIN tx.rows) \ {PgIdOf(whereVals[1])} |-> tx.rows[i]]], 1)
    ELSE DbOk(tx, 0)

Registered(alias) == databases[alias] # Absent
W0 == World(databases, handles, cache)

\* what an operation run to its end leaves behind: registry, wrappers, cache,
\* log; it does not move the request of another thread
Commit(w) ==
    /\ databases' = w.databases
    /\ handles' = w.handles
    /\ cache' = w.cache
    /\ log' = w.log
    /\ inflight' = inflight

(***************************************************************************)
(* editor/views.py: what every table request does first                    *)
(***************************************************************************)
Dict(m) == [k |-> "dict", m |-> m]
List(q) == [k |-> "list", items |-> q]
InvalidJson == [k |-> "invalid"]
IsDict(x) == x.k = "dict"
IsList(x) == x.k = "list"
\* payload.get(key)
Get(payload, key) == IF key \in DOMAIN payload.m THEN payload.m[key] ELSE None
NoKeys == [x \in {} |-> None]

Names(columns) == [i \in 1..Len(columns) |-> columns[i].name]
InSeq(x, q) == \E i \in 1..Len(q) : q[i] = x
Filter(q, P(_)) == SelectSeq(q, P)

\* get_object_or_404(DatabaseConfig, alias=db_alias, user=request.user), then
\* ensure_database_connection, get_schemas, get_tables, get_table_meta
Resolve(w, st, pg, user, alias, schema, table, refresh) ==
    LET Refused(status, w1) == [status |-> status, w |-> w1, columns |-> << >>, pk_columns |-> << >>]
        WithMeta(c) == [status |-> "ok", w |-> c.w, columns |-> c.r[1], pk_columns |-> c.r[2]]
        WithTables(b) ==
            IF ~InSeq(table, b.r) THEN Refused("Unknown table", b.w)
            ELSE WithMeta(GetTableMeta(b.w, pg, alias, schema, table, refresh))
        WithSchemas(a) ==
            IF ~InSeq(schema, a.r) THEN Refused("Unknown schema", a.w)
            ELSE WithTables(GetTables(a.w, pg, alias, schema, refresh))
    IN IF OwnedPks(st, user, alias) = {} THEN Refused("404", w)
       ELSE WithSchemas(GetSchemas(EnsureDatabaseConnection(w, st, user, alias), pg, alias, FALSE))

\* the data_type of a column in the cached column list, "None" when unknown
DataTypeOf(columns, name) ==
    IF \E i \in 1..Len(columns) : columns[i].name = name
    THEN columns[CHOOSE i \in 1..Len(columns) : columns[i].name = name].data_type
    ELSE "None"

\* f'{conn.ops.quote_name(c)} = %s' for each name
Assignments(names) == [i \in 1..Len(names) |-> <<QuoteName(names[i]), Lit(" = "), Placeholder>>]

\* the names put into the text as they came
QualifiedTableRaw(schema, table) ==
    <<[t |-> "raw", s |-> schema], Lit("."), [t |-> "raw", s |-> table]>>

\* {quoted_schema}.{quoted_table}
QualifiedTable(schema, table) == <<QuoteName(schema), Lit("."), QuoteName(table)>>

(***************************************************************************)
(* editor/views.py: table_save_rows                                        *)
(***************************************************************************)
Batch0(w, rs) == [w |-> w, tx |-> Tx(rs), errors |-> << >>, count |-> 0, crashed |-> "None"]

\* an UPDATE of every row of the table
UpdateSqlNoWhere(schema, table, update_cols, pk_columns) ==
    <<Lit("UPDATE ")>> \o QualifiedTable(schema, table) \o <<Lit(" SET ")>>
    \o JoinWith(<<Lit(", ")>>, Assignments(update_cols))

\* the UPDATE statement of one row
UpdateSql(schema, table, update_cols, pk_columns) ==
    <<Lit("UPDATE ")>> \o QualifiedTable(schema, table) \o <<Lit(" SET ")>>
    \o JoinWith(<<Lit(", ")>>, Assignments(update_cols))
    \o <<Lit(" WHERE ")>> \o JoinWith(<<Lit(" AND ")>>, Assignments(pk_columns))

\* row.get("columns") or {}: the mapping, {} for a falsy value; any other
\* value has no items()
ColumnsOrEmpty(columns) ==
    IF IsDict(columns) THEN columns.m
    ELSE IF IsList(columns) /\ Len(columns.items) > 0 THEN [raise |-> Raised]
    ELSE NoKeys

\* the body of 'for row in payload["rows"]' for the row at position idx
SaveRow(st, idx, row, pg, alias, schema, table, columns, pk_columns) ==
    LET pk == row.pk
        cols == ColumnsOrEmpty(row.columns)
        pk_set == SeqToSet(pk_columns)
        Applies(c) == c \in DOMAIN cols /\ c \notin pk_set
        \* after cur.execute(sql, set_params + where_params)
        Executed(w1, res) ==
            IF res.ok
            THEN [st EXCEPT !.w = w1, !.tx = res.tx, !.count = @ + res.rowcount]
            ELSE [st EXCEPT !.w = w1, !.tx = res.tx,
                            !.errors = Append(@, [idx |-> idx, error |-> res.error])]
        Update(update_cols, set_vals, where_vals) ==
            IF InSeq(Raised, set_vals)
            THEN [st EXCEPT !.crashed = "OverflowError"]
            ELSE Executed(Execute(st.w, alias, UpdateSql(schema, table, update_cols, pk_columns),
                                  set_vals \o where_vals),
                          PgUpdate(st.tx, pg, schema, table, update_cols, set_vals, pk_columns, where_vals))
        WithCols(update_cols) ==
            IF Len(update_cols) = 0 THEN st
            ELSE Update(update_cols,
                        [i \in 1..Len(update_cols) |->
                            CoerceValue(cols[update_cols[i]], DataTypeOf(columns, update_cols[i]))],
                        [i \in 1..Len(pk_columns) |-> pk.m[pk_columns[i]]])
    IN IF ~IsDict(pk) \/ ~(pk_set \subseteq DOMAIN pk.m)
       THEN [st EXCEPT !.errors = Append(@, [idx |-> idx, error |-> "Invalid or missing primary key"])]
       ELSE IF "raise" \in DOMAIN cols
       THEN [st EXCEPT !.crashed = "AttributeError"]
       ELSE WithCols(Filter(Names(columns), Applies))

RECURSIVE SaveLoop(_, _, _, _, _, _, _, _, _)
\* the loop ends with the batch or with an exception nothing in it catches
SaveLoop(st, idx, batch, pg, alias, schema, table, columns, pk_columns) ==
    IF idx > Len(batch) \/ st.crashed # "None" THEN st
    ELSE SaveLoop(SaveRow(st, idx, batch[idx], pg, alias, schema, table, columns, pk_columns),
                  idx + 1, batch, pg, alias, schema, table, columns, pk_columns)

\* a transaction that commits whatever the error list holds
SaveExitCommit(st, rs) == st.tx.rows

\* leaving 'with transaction.atomic(using=db_alias)': commit, or roll back
\* when ValueError("Row errors") or another exception was raised
SaveExit(st, rs) == IF Len(st.errors) > 0 \/ st.crashed # "None" THEN rs ELSE st.tx.rows

\* a test that takes every table to have a primary key
NoPrimaryKeyNever(pk_columns) == FALSE

\* 'if not pk_set' of table_save_rows, 'if not pk_columns' of table_delete_rows
NoPrimaryKey(pk_columns) == Len(pk_columns) = 0

Rejected(op, status) == [op |-> op, status |-> status, ok |-> FALSE, count |-> 0, errors |-> << >>]

TableSaveRows(user, alias, schema, table, payload) ==
    LET head == [user |-> user, alias |-> alias, schema |-> schema, table |-> table, payload |-> payload]
    IN /\ \E q \in {Resolve(W0, store, pgTables, user, alias, schema, table, FALSE)} :
          IF q.status # "ok"
          THEN /\ Commit(q.w)
               /\ rows' = rows
               /\ resp' = head @@ Rejected("save_rows", q.status)
          ELSE IF NoPrimaryKey(q.pk_columns)
          THEN /\ Commit(q.w)
               /\ rows' = rows
               /\ resp' = head @@ Rejected("save_rows", "Table has no primary key")
          ELSE IF payload = InvalidJson
          THEN /\ Commit(q.w)
               /\ rows' = rows
               /\ resp' = head @@ Rejected("save_rows", "Invalid JSON")
          ELSE IF ~IsList(Get(payload, "rows"))
          THEN /\ Commit(q.w)
               /\ rows' = rows
               /\ resp' = head @@ Rejected("save_rows", "Missing or invalid 'rows' array")
          ELSE \E st \in {SaveLoop(Batch0(GetHandle(q.w, alias), rows), 1, payload.m.rows.items,
                                   pgTables, alias, schema, table, q.columns, q.pk_columns)} :
                  /\ Commit(st.w)
                  /\ rows' = SaveExit(st, rows)
                  /\ resp' = IF st.crashed # "None"
                             THEN head @@ Rejected("save_rows", "500")
                             ELSE head @@ [op |-> "save_rows", status |-> "200", ok |-> Len(st.errors) = 0,
                                           count |-> IF Len(st.errors) = 0 THEN st.count ELSE 0,
                                           errors |-> st.errors]
       /\ UNCHANGED <<store, nextPk, pgTables, seq>>

(***************************************************************************)
(* editor/views.py: table_delete_rows                                      *)
(***************************************************************************)
DeleteSql(schema, table, pk_columns) ==
    <<Lit("DELETE FROM ")>> \o QualifiedTable(schema, table)
    \o <<Lit(" WHERE ")>> \o JoinWith(<<Lit(" AND ")>>, Assignments(pk_columns))

\* the body of 'for pk in pks' for the mapping at position idx
DeleteRow(st, idx, pk, pg, alias, schema, table, pk_columns) ==
    LET pk_set == SeqToSet(pk_columns)
        \* after cur.execute(sql, params)
        Executed(w1, res) ==
            IF res.ok
            THEN [st EXCEPT !.w = w1, !.tx = res.tx, !.count = @ + res.rowcount]
            ELSE [st EXCEPT !.w = w1, !.tx = res.tx,
                            !.errors = Append(@, [idx |-> idx, error |-> res.error])]
        Delete(where_vals) ==
            Executed(Execute(st.w, alias, DeleteSql(schema, table, pk_columns), where_vals),
                     PgDelete(st.tx, pg, schema, table, pk_columns, where_vals))
    IN IF ~IsDict(pk) \/ ~(pk_set \subseteq DOMAIN pk.m)
       THEN [st EXCEPT !.errors = Append(@, [idx |-> idx, error |-> "Invalid or missing primary key"])]
       ELSE Delete([i \in 1..Len(pk_columns) |-> pk.m[pk_columns[i]]])

\* a transaction that commits whatever the error list holds
DeleteExitCommit(st, rs) == st.tx.rows

\* leaving the transaction of table_delete_rows: roll back when
\* ValueError("Delete errors") was raised, else commit
DeleteExit(st, rs) == IF Len(st.errors) > 0 THEN rs ELSE st.tx.rows

RECURSIVE DeleteLoopStopAtError(_, _, _, _, _, _, _, _)
\* a scan that ends at the first item put on the error list
DeleteLoopStopAtError(st, idx, pks, pg, alias, schema, table, pk_columns) ==
    IF idx > Len(pks) \/ Len(st.errors) > 0 THEN st
    ELSE DeleteLoopStopAtError(DeleteRow(st, idx, pks[idx], pg, alias, schema, table, pk_columns),
                               idx + 1, pks, pg, alias, schema, table, pk_columns)

RECURSIVE DeleteLoop(_, _, _, _, _, _, _, _)
DeleteLoop(st, idx, pks, pg, alias, schema, table, pk_columns) ==
    IF idx > Len(pks) THEN st
    ELSE DeleteLoop(DeleteRow(st, idx, pks[idx], pg, alias, schema, table, pk_columns),
                    idx + 1, pks, pg, alias, schema, table, pk_columns)

TableDeleteRows(user, alias, schema, table, payload) ==
    LET head == [user |-> user, alias |-> alias, schema |-> schema, table |-> table, payload |-> payload]
    IN /\ \E q \in {Resolve(W0, store, pgTables, user, alias, schema, table, FALSE)} :
          IF q.status # "ok"
          THEN /\ Commit(q.w)
               /\ rows' = rows
               /\ resp' = head @@ Rejected("delete_rows", q.status)
          ELSE IF NoPrimaryKey(q.pk_columns)
          THEN /\ Commit(q.w)
               /\ rows' = rows
               /\ resp' = head @@ Rejected("delete_rows", "Table has no primary key")
          ELSE IF payload = InvalidJson
          THEN /\ Commit(q.w)
               /\ rows' = rows
               /\ resp' = head @@ Rejected("delete_rows", "Invalid JSON")
          ELSE IF ~IsList(Get(payload, "pks"))
          THEN /\ Commit(q.w)
               /\ rows' = rows
               /\ resp' = head @@ Rejected("delete_rows", "Missing or invalid 'pks' array")
          ELSE \E st \in {DeleteLoop(Batch0(GetHandle(q.w, alias), rows), 1, payload.m.pks.items,
                                     pgTables, alias, schema, table, q.pk_columns)} :
                  /\ Commit(st.w)
                  /\ rows' = DeleteExit(st, rows)
                  /\ resp' = head @@ [op |-> "delete_rows", status |-> "200", ok |-> Len(st.errors) = 0,
                                      count |-> IF Len(st.errors) = 0 THEN st.count ELSE 0,
                                      errors |-> st.errors]
       /\ UNCHANGED <<store, nextPk, pgTables, seq>>

(***************************************************************************)
(* editor/introspection.py: get_pk_sequence_columns                        *)
(***************************************************************************)
\* a test that finds no default backed by a sequence
DefaultUsesSequenceNever(default) == FALSE

\* "nextval" in (c.get("column_default") or "").strip().lower()
DefaultUsesSequence(default) == default = NEXTVAL

GetPkSequenceColumns(w, pg, alias, schema, table, refresh) ==
    LET Backed(a, b) ==
            LET UsesSequence(c) == InSeq(c.name, b.r) /\ DefaultUsesSequence(c.column_default)
            IN Ret(b.w, Names(Filter(a.r, UsesSequence)))
        WithColumns(a) == Backed(a, GetPrimaryKeyColumns(a.w, pg, alias, schema, table, refresh))
    IN WithColumns(GetColumns(w, pg, alias, schema, table, refresh))

(***************************************************************************)
(* editor/views.py: table_grid                                             *)
(***************************************************************************)
\* str.upper() on the two sort orders
StrUpper(t) == IF t = "desc" THEN "DESC" ELSE "ASC"

NotANumber == [ok |-> FALSE, n |-> 0]
Number(n) == [ok |-> TRUE, n |-> n]
\* int(text) on the query-string texts of the model
IntOfText(t) ==
    CASE t = "0" -> Number(0)
      [] t = "1" -> Number(1)
      [] t = "2" -> Number(2)
      [] t = "3" -> Number(3)
      [] t = "7" -> Number(7)
      [] t = "500" -> Number(500)
      [] t = "10000" -> Number(10000)
      [] t = "-1" -> Number(-1)
      [] OTHER -> NotANumber

Min(a, b) == IF a < b THEN a ELSE b
Max(a, b) == IF a > b THEN a ELSE b

\* int(request.GET.get(key, default) or default); "" is the absent or empty parameter
IntParam(t, default) == IF t = "" THEN Number(default) ELSE IntOfText(t)

\* (request.GET.get("order") or "asc").lower(), "asc" unless asc or desc
SortOrder(order) ==
    LET o == StrLower(IF order = "" THEN "asc" ELSE order)
    IN IF o \in {"asc", "desc"} THEN o ELSE "asc"

\* a sort column taken from the request as it came
OrderColRequested(sort, column_names, pk_columns) ==
    IF sort # "" THEN sort
    ELSE IF Len(pk_columns) > 0 THEN pk_columns[1]
    ELSE column_names[1]

\* order_col; "" when there is neither a primary key nor a column
OrderCol(sort, column_names, pk_columns) ==
    IF sort # "" /\ InSeq(sort, column_names) THEN sort
    ELSE IF Len(pk_columns) > 0 THEN pk_columns[1]
    ELSE IF Len(column_names) > 0 THEN column_names[1]
    ELSE ""

\* request.GET.get(f"filter_{col}", "").strip()
FilterOf(filters, col) == IF col \in DOMAIN filters THEN StrStrip(filters[col]) ELSE ""

\* f"%{val}%"
Pattern(val) == [k |-> "like", v |-> val]

\* the columns of the column list that the request names a filter for
FilterColsNamed(column_names, filters) == Filter(column_names, LAMBDA c : c \in DOMAIN filters)

\* the columns of the column list that carry a non-empty filter
FilterCols(column_names, filters) == Filter(column_names, LAMBDA c : FilterOf(filters, c) # "")

\* ' AND '.join(where_parts) if where_parts else "1=1"
WhereSql(cols) ==
    IF Len(cols) = 0 THEN <<Lit("1=1")>>
    ELSE JoinWith(<<Lit(" AND ")>>,
                  [i \in 1..Len(cols) |-> <<QuoteName(cols[i]), Lit("::text ILIKE "), Placeholder>>])

SelectSql(schema, table, cols, order_col, sort_order) ==
    <<Lit("SELECT * FROM ")>> \o QualifiedTable(schema, table) \o <<Lit(" WHERE ")>> \o WhereSql(cols)
    \o <<Lit(" ORDER BY "), QuoteName(order_col), Lit(" "), Lit(StrUpper(sort_order)),
         Lit(" LIMIT "), Placeholder, Lit(" OFFSET "), Placeholder>>

CountSql(schema, table, cols) ==
    <<Lit("SELECT COUNT(*) FROM ")>> \o QualifiedTable(schema, table) \o <<Lit(" WHERE ")>>
    \o WhereSql(cols)

\* the rows of a table as PostgreSQL sees them; only the data table has any
PgRows(schema, table, rs) ==
    IF IsDataTable(schema, table) THEN {[id |-> i, v |-> rs[i]] : i \in DOMAIN rs} ELSE {}

NULL == "NULL"
\* column::text
ColText(row, col) ==
    IF col = "id" THEN Digit(row.id)
    ELSE IF row.v = None THEN NULL ELSE row.v.v

\* text ILIKE '%val%' on the one-word texts of the model
ILike(text, val) == text # NULL /\ StrLower(text) = StrLower(val)

\* the place of a row in ORDER BY col ASC, NULL last
SortKey(row, col) ==
    IF col = "id" THEN row.id
    ELSE IF row.v = None THEN 1000000
    ELSE IntOfText(row.v.v).n

\* the orders in which PostgreSQL may return a set of rows under ORDER BY
Orderings(S, col, sort_order) ==
    {q \in [1..Cardinality(S) -> S] :
        /\ \A i, j \in 1..Cardinality(S) : i # j => q[i] # q[j]
        /\ \A i, j \in 1..Cardinality(S) :
              i < j => IF sort_order = "desc" THEN SortKey(q[i], col) >= SortKey(q[j], col)
                       ELSE SortKey(q[i], col) <= SortKey(q[j], col)}

\* SELECT ... WHERE ... : the first error PostgreSQL raises, or the matching rows
PgSelect(pg, schema, table, cols, vals, order_col, limit, rs) ==
    IF ~PgHasTable(pg, schema, table) THEN [error |-> "relation does not exist", match |-> {}]
    ELSE IF \E i \in 1..Len(cols) : ~HasColumn(table, cols[i])
         THEN [error |-> "column does not exist", match |-> {}]
    ELSE IF ~HasColumn(table, order_col) THEN [error |-> "column does not exist", match |-> {}]
    ELSE IF limit < 0 THEN [error |-> "LIMIT must not be negative", match |-> {}]
    ELSE [error |-> "None",
          match |-> {r \in PgRows(schema, table, rs) :
                        \A i \in 1..Len(cols) : ILike(ColText(r, cols[i]), vals[i])}]

\* rows[offset : offset + limit]
Slice(q, offset, limit) ==
    IF offset >= Len(q) THEN << >> ELSE SubSeq(q, offset + 1, Min(Len(q), offset + limit))

\* Paginator.num_pages with allow_empty_first_page; per_page > 0
NumPages(total, per_page) ==
    LET hits == Max(1, total) IN (hits + per_page - 1) \div per_page

GridOut(status, page_rows, total, per_page, page_num, order_col, sort_order) ==
    [op |-> "grid", status |-> status, rows |-> page_rows, total |-> total, per_page |-> per_page,
     page |-> page_num, sort_col |-> order_col, sort_order |-> sort_order]
GridFailed(status) == GridOut(status, << >>, 0, 0, 0, "", "")

TableGrid(user, alias, schema, table, query) ==
    LET head == [user |-> user, alias |-> alias, schema |-> schema, table |-> table, payload |-> query]
        sort_order == SortOrder(query.order)
    IN /\ UNCHANGED <<store, nextPk, pgTables, rows, seq>>
       /\ \E q \in {Resolve(W0, store, pgTables, user, alias, schema, table, query.refresh)},
             per \in {IntParam(query.per_page, 50)},
             pg \in {IntParam(query.page, 1)} :
          \E column_names \in {Names(q.columns)},
             per_page \in {Min(per.n, 200)},
             page_num \in {Max(1, pg.n)} :
          \E order_col \in {OrderCol(query.sort, column_names, q.pk_columns)},
             cols \in {FilterCols(column_names, query.filters)},
             offset \in {(page_num - 1) * per_page} :
          \E vals \in {[i \in 1..Len(cols) |-> FilterOf(query.filters, cols[i])]} :
          \E params \in {[i \in 1..Len(cols) |-> Pattern(vals[i])]} :
          IF q.status # "ok"
          THEN Commit(q.w) /\ resp' = head @@ GridFailed(q.status)
          ELSE IF order_col = "" \/ ~per.ok \/ ~pg.ok
          THEN Commit(q.w) /\ resp' = head @@ GridFailed("500")
          ELSE \E w1 \in {Execute(GetHandle(q.w, alias), alias,
                                  SelectSql(schema, table, cols, order_col, sort_order),
                                  params \o <<per_page, offset>>)},
                  res \in {PgSelect(pgTables, schema, table, cols, vals, order_col, per_page, rows)} :
               IF res.error = "LIMIT must not be negative"
               THEN Commit(w1) /\ resp' = head @@ GridFailed("500")
               ELSE IF res.error # "None"
               THEN Commit(w1) /\ resp' = head @@ GridFailed("502")
               ELSE \E w2 \in {Execute(w1, alias, CountSql(schema, table, cols), params)},
                       total \in {Cardinality(res.match)} :
                    IF per_page = 0 \/ page_num > NumPages(total, per_page)
                    THEN Commit(w2) /\ resp' = head @@ GridFailed("500")
                    ELSE \E s \in {GetPkSequenceColumns(w2, pgTables, alias, schema, table,
                                                        query.refresh)} :
                         /\ Commit(s.w)
                         /\ \E ordered \in Orderings(res.match, order_col, sort_order) :
                               resp' = head @@ GridOut("200", Slice(ordered, offset, per_page),
                                                       total, per_page, page_num,
                                                       order_col, sort_order)

(***************************************************************************)
(* editor/views.py: table_insert_row                                       *)
(***************************************************************************)
\* INSERT of one row: the sequence fills the id the statement leaves out
PgInsert(tx, pg, schema, table, cols, vals, n) ==
    IF ~PgHasTable(pg, schema, table) THEN DbError(tx, "relation does not exist")
    ELSE IF \E i \in 1..Len(cols) : ~HasColumn(table, cols[i]) THEN DbError(tx, "column does not exist")
    ELSE IF \E i \in 1..Len(cols) : ~PgAssignable(ColumnOf(table, cols[i]), vals[i])
         THEN DbError(tx, "invalid input value")
    ELSE IF \E i \in 1..Len(ColumnsOf(table)) :
               LET c == ColumnsOf(table)[i]
               IN ~c.is_nullable /\ c.column_default = "None" /\ ~InSeq(c.name, cols)
         THEN DbError(tx, "null value violates not-null constraint")
    ELSE IF ~IsDataTable(schema, table) THEN DbOk(tx, 1)
    ELSE IF n \in DOMAIN tx.rows THEN DbError(tx, "duplicate key value violates unique constraint")
    ELSE LET v == IF InSeq("v", cols)
                  THEN PgStored(vals[CHOOSE i \in 1..Len(cols) : cols[i] = "v"])
                  ELSE None
         IN DbOk([tx EXCEPT !.rows = [i \in (DOMAIN tx.rows) \cup {n} |->
                                         IF i = n THEN v ELSE tx.rows[i]]], 1)

\* the statement draws a value from the sequence unless it fails before the
\* defaults are evaluated
SeqAdvances(res, schema, table) ==
    IsDataTable(schema, table)
    /\ res.error \in {"None", "duplicate key value violates unique constraint"}

RECURSIVE InsertCols(_, _, _, _, _, _)
\* 'for c in column_names': the columns to insert, or the first validation error
InsertCols(names, cols, columns, pk_columns, pk_uses_sequence, acc) ==
    IF Len(names) = 0 THEN [ok |-> TRUE, error |-> "None", cols |-> acc]
    ELSE LET c == names[1]
             val == IF c \in DOMAIN cols THEN cols[c] ELSE None
             nullable == \E i \in 1..Len(columns) : columns[i].name = c /\ columns[i].is_nullable
         IN IF InSeq(c, pk_uses_sequence)
            THEN InsertCols(Tail(names), cols, columns, pk_columns, pk_uses_sequence, acc)
            ELSE IF InSeq(c, pk_columns) /\ IsEmpty(val)
            THEN [ok |-> FALSE, error |-> "Primary key column is required (no sequence).", cols |-> acc]
            ELSE IF IsEmpty(val) /\ ~nullable
            THEN [ok |-> FALSE, error |-> "Non-nullable column requires a value.", cols |-> acc]
            ELSE InsertCols(Tail(names), cols, columns, pk_columns, pk_uses_sequence, Append(acc, c))

\* the INSERT statement of table_insert_row
InsertSql(schema, table, insert_cols) ==
    <<Lit("INSERT INTO ")>> \o QualifiedTable(schema, table) \o <<Lit(" (")>>
    \o JoinWith(<<Lit(", ")>>, [i \in 1..Len(insert_cols) |-> <<QuoteName(insert_cols[i])>>])
    \o <<Lit(") VALUES (")>>
    \o JoinWith(<<Lit(", ")>>, [i \in 1..Len(insert_cols) |-> <<Placeholder>>])
    \o <<Lit(")")>>

TableInsertRow(user, alias, schema, table, payload) ==
    LET head == [user |-> user, alias |-> alias, schema |-> schema, table |-> table, payload |-> payload]
    IN \E q \in {Resolve(W0, store, pgTables, user, alias, schema, table, FALSE)} :
       IF q.status # "ok"
       THEN /\ Commit(q.w)
            /\ resp' = head @@ Rejected("insert_row", q.status)
            /\ UNCHANGED <<store, nextPk, pgTables, rows, seq>>
       ELSE \E s \in {GetPkSequenceColumns(q.w, pgTables, alias, schema, table, FALSE)} :
            IF payload = InvalidJson
            THEN /\ Commit(s.w)
                 /\ resp' = head @@ Rejected("insert_row", "Invalid JSON")
                 /\ UNCHANGED <<store, nextPk, pgTables, rows, seq>>
            ELSE IF ~IsDict(Get(payload, "columns"))
            THEN /\ Commit(s.w)
                 /\ resp' = head @@ Rejected("insert_row", "Missing or invalid 'columns' object")
                 /\ UNCHANGED <<store, nextPk, pgTables, rows, seq>>
            ELSE \E cols \in {payload.m.columns.m} :
                 \E plan \in {InsertCols(Names(q.columns), cols, q.columns, q.pk_columns, s.r, << >>)} :
                 IF ~plan.ok
                 THEN /\ Commit(s.w)
                      /\ resp' = head @@ Rejected("insert_row", plan.error)
                      /\ UNCHANGED <<store, nextPk, pgTables, rows, seq>>
                 ELSE IF Len(plan.cols) = 0
                 THEN /\ Commit(s.w)
                      /\ resp' = head @@ Rejected("insert_row", "No columns to insert")
                      /\ UNCHANGED <<store, nextPk, pgTables, rows, seq>>
                 ELSE \E values \in {[i \in 1..Len(plan.cols) |->
                                        IF IsEmpty(Get(Dict(cols), plan.cols[i])) THEN None
                                        ELSE CoerceValue(Get(Dict(cols), plan.cols[i]),
                                                         DataTypeOf(q.columns, plan.cols[i]))]} :
                      IF InSeq(Raised, values)
                      THEN /\ Commit(s.w)
                           /\ resp' = head @@ Rejected("insert_row", "500")
                           /\ UNCHANGED <<store, nextPk, pgTables, rows, seq>>
                      ELSE \E w1 \in {Execute(GetHandle(s.w, alias), alias,
                                              InsertSql(schema, table, plan.cols), values)},
                              res \in {PgInsert(Tx(rows), pgTables, schema, table, plan.cols, values, seq)} :
                           /\ Commit(w1)
                           /\ rows' = IF res.ok THEN res.tx.rows ELSE rows
                           /\ seq' = IF SeqAdvances(res, schema, table) THEN seq + 1 ELSE seq
                           /\ resp' = head @@ [op |-> "insert_row", status |-> "200", ok |-> res.ok,
                                               count |-> IF res.ok THEN 1 ELSE 0,
                                               errors |-> IF res.ok THEN << >>
                                                          ELSE <<[idx |-> 1, error |-> res.error]>>]
                           /\ UNCHANGED <<store, nextPk, pgTables>>

(***************************************************************************)
(* editor/forms.py and editor/views.py: database configurations            *)
(***************************************************************************)
Live(st) == {pk \in Pks : st[pk] # NoCfg}
\* the pk of an instance that was never saved: "not self.instance.pk" holds
NewInstance == 0

\* DatabaseConfigForm.clean: unique name and unique database+schema per user,
\* then the connection test with the password given or the one stored
FormClean(st, user, instance, name, database, schema, password, reachable) ==
    LET others == {pk \in Live(st) : st[pk].user = user /\ pk # instance}
        test_password == IF password # "" THEN password
                         ELSE IF instance # NewInstance THEN st[instance].password
                         ELSE ""
    IN IF \E pk \in others : st[pk].name = name
       THEN "You already have a database with this name."
       ELSE IF \E pk \in others : st[pk].database = database /\ st[pk].schema = schema
       THEN "You already have a connection to this database and schema."
       ELSE IF instance = NewInstance /\ password = ""
       THEN "This field is required."
       ELSE IF test_password # "" /\ ~reachable
       THEN "Connection test failed"
       ELSE "valid"

\* DatabaseConfigForm.save followed by DatabaseConfig.save
FormSave(st, user, pk, name, host, database, schema, password) ==
    LET old == st[pk]
        cfg == [user |-> user,
                name |-> name,
                alias |-> IF old # NoCfg /\ old.alias # EMPTY THEN old.alias ELSE AliasOf(user, pk),
                host |-> host,
                port |-> 5432,
                database |-> database,
                schema |-> schema,
                username |-> "editor",
                password |-> IF password # "" THEN password ELSE old.password]
    IN [st EXCEPT ![pk] = cfg]

\* database_config_add, POST
DatabaseConfigAdd(user, name, host, database, password, reachable) ==
    /\ nextPk <= MaxPk
    /\ \E verdict \in {FormClean(store, user, NewInstance, name, database, "public", password, reachable)} :
       IF verdict = "valid"
       THEN \E st \in {FormSave(store, user, nextPk, name, host, database, "public", password)} :
            /\ store' = st
            /\ nextPk' = nextPk + 1
            /\ Commit(EnsureDatabaseConnection(W0, st, user, st[nextPk].alias))
            /\ resp' = [op |-> "config_add", user |-> user, alias |-> st[nextPk].alias,
                        status |-> "302"]
       ELSE /\ Commit(W0)
            /\ resp' = [op |-> "config_add", user |-> user, alias |-> EMPTY, status |-> verdict]
            /\ UNCHANGED <<store, nextPk>>
    /\ UNCHANGED <<pgTables, rows, seq>>

\* database_config_edit, POST
DatabaseConfigEdit(user, pk, name, host, database, password, reachable) ==
    /\ IF store[pk] = NoCfg \/ store[pk].user # user
       THEN /\ Commit(W0)
            /\ resp' = [op |-> "config_edit", user |-> user, alias |-> EMPTY, status |-> "404"]
            /\ UNCHANGED store
       ELSE \E verdict \in {FormClean(store, user, pk, name, database, "public", password, reachable)} :
            IF verdict = "valid"
            THEN \E st \in {FormSave(store, user, pk, name, host, database, "public", password)} :
                 /\ store' = st
                 /\ Commit(EnsureDatabaseConnection(W0, st, user, st[pk].alias))
                 /\ resp' = [op |-> "config_edit", user |-> user, alias |-> st[pk].alias,
                             status |-> "302"]
            ELSE /\ Commit(W0)
                 /\ resp' = [op |-> "config_edit", user |-> user, alias |-> store[pk].alias,
                             status |-> verdict]
                 /\ UNCHANGED store
    /\ UNCHANGED <<nextPk, pgTables, rows, seq>>

\* database_config_delete, POST
DatabaseConfigDelete(user, pk, close) ==
    /\ IF store[pk] = NoCfg \/ store[pk].user # user
       THEN /\ Commit(W0)
            /\ resp' = [op |-> "config_delete", user |-> user, alias |-> EMPTY, status |-> "404"]
            /\ UNCHANGED store
       ELSE /\ store' = [store EXCEPT ![pk] = NoCfg]
            /\ Commit(RemoveDatabaseConnection(W0, store[pk].alias, close))
            /\ resp' = [op |-> "config_delete", user |-> user, alias |-> store[pk].alias,
                        status |-> "302"]
    /\ UNCHANGED <<nextPk, pgTables, rows, seq>>

(***************************************************************************)
(* editor/schema_forms.py and editor/views.py: schema_create, schema_delete *)
(***************************************************************************)
UNDERSCORE == "_"
IsAlnumChar(ch) ==
    \/ IndexIn(UpperLetters, ch) # 0
    \/ IndexIn(LowerLetters, ch) # 0
    \/ ch \in {Digit(i) : i \in 0..9}
\* name.replace('_', '').isalnum()
IsIdentifierLike(name) ==
    LET AllAlnum(rest) == Len(rest) > 0 /\ \A i \in 1..Len(rest) : IsAlnumChar(rest[i])
    IN AllAlnum(SelectSeq(name, LAMBDA ch : ch # UNDERSCORE))

\* CreateSchemaForm.clean_name: the cleaned name, or the validation error
CleanName(raw) ==
    LET Checked(name) ==
            IF Len(name) = 0 THEN [ok |-> FALSE, error |-> "Schema name cannot be empty", name |-> name]
            ELSE IF ~IsIdentifierLike(name)
            THEN [ok |-> FALSE, error |-> "Schema name can only contain letters, numbers, and underscores",
                  name |-> name]
            ELSE IF IsSystemSchemaName(name)
            THEN [ok |-> FALSE, error |-> "Cannot create system schema", name |-> name]
            ELSE [ok |-> TRUE, error |-> "None", name |-> name]
    IN Checked(Strip(raw))

\* schema_create
SchemaCreate(user, alias, method, raw) ==
    LET head == [op |-> "schema_create", user |-> user, alias |-> alias, schema |-> raw,
                 table |-> EMPTY, method |-> method]
    IN IF OwnedPks(store, user, alias) = {}
       THEN /\ Commit(W0)
            /\ resp' = head @@ [status |-> "404"]
            /\ UNCHANGED <<store, nextPk, pgTables, rows, seq>>
       ELSE \E w1 \in {EnsureDatabaseConnection(W0, store, user, alias)}, form \in {CleanName(raw)} :
            IF method = "POST" /\ form.ok
            THEN \E a \in {CreateSchema(w1, pgTables, alias, form.name)} :
                 /\ Commit(a.w)
                 /\ pgTables' = a.pg
                 /\ rows' = RowsAfter(a.pg, rows)
                 /\ seq' = SeqAfter(a.pg, seq)
                 /\ resp' = head @@ [status |-> IF a.r.ok THEN "302" ELSE a.r.error]
                 /\ UNCHANGED <<store, nextPk>>
            ELSE /\ Commit(w1)
                 /\ resp' = head @@ [status |-> IF method = "POST" THEN form.error ELSE "200"]
                 /\ UNCHANGED <<store, nextPk, pgTables, rows, seq>>

\* schema_delete
SchemaDelete(user, alias, method, schema_name, force) ==
    LET head == [op |-> "schema_delete", user |-> user, alias |-> alias, schema |-> schema_name,
                 table |-> EMPTY, method |-> method]
    IN IF OwnedPks(store, user, alias) = {}
       THEN /\ Commit(W0)
            /\ resp' = head @@ [status |-> "404"]
            /\ UNCHANGED <<store, nextPk, pgTables, rows, seq>>
       ELSE \E a \in {GetSchemas(EnsureDatabaseConnection(W0, store, user, alias), pgTables, alias, FALSE)} :
            IF ~InSeq(schema_name, a.r)
            THEN /\ Commit(a.w)
                 /\ resp' = head @@ [status |-> "Unknown schema"]
                 /\ UNCHANGED <<store, nextPk, pgTables, rows, seq>>
            ELSE \E b \in {SchemaHasTables(a.w, pgTables, alias, schema_name)} :
                 IF method = "POST"
                 THEN \E c \in {DeleteSchema(b.w, pgTables, alias, schema_name, force)} :
                      /\ Commit(c.w)
                      /\ pgTables' = c.pg
                      /\ rows' = RowsAfter(c.pg, rows)
                      /\ seq' = SeqAfter(c.pg, seq)
                      /\ resp' = head @@ [status |-> IF c.r.ok THEN "302" ELSE c.r.error]
                      /\ UNCHANGED <<store, nextPk>>
                 ELSE /\ Commit(b.w)
                      /\ resp' = head @@ [status |-> "200"]
                      /\ UNCHANGED <<store, nextPk, pgTables, rows, seq>>

(***************************************************************************)
(* editor/views.py: schema_list                                            *)
(***************************************************************************)
RECURSIVE SchemaInfo(_, _, _, _, _)
\* 'for schema in schemas': get_tables(db_alias, schema, refresh=False)
SchemaInfo(w, pg, alias, schemas, acc) ==
    LET Listed(a) == SchemaInfo(a.w, pg, alias, Tail(schemas),
                                Append(acc, [name |-> schemas[1], has_tables |-> Len(a.r) > 0]))
    IN IF Len(schemas) = 0 THEN Ret(w, acc)
       ELSE Listed(GetTables(w, pg, alias, schemas[1], FALSE))

SchemaList(user, alias, refresh) ==
    LET head == [op |-> "schema_list", user |-> user, alias |-> alias, schema |-> EMPTY,
                 table |-> EMPTY, refresh |-> refresh]
    IN /\ UNCHANGED <<store, nextPk, pgTables, rows, seq>>
       /\ IF OwnedPks(store, user, alias) = {}
          THEN Commit(W0) /\ resp' = head @@ [status |-> "404", schema_info |-> << >>]
          ELSE \E a \in {GetSchemas(EnsureDatabaseConnection(W0, store, user, alias), pgTables, alias,
                                    refresh)} :
               \E b \in {SchemaInfo(a.w, pgTables, alias, a.r, << >>)} :
               Commit(b.w) /\ resp' = head @@ [status |-> "200", schema_info |-> b.r]

\* the response is delivered to the client
Deliver ==
    /\ resp # [op |-> "init"]
    /\ resp' = [op |-> "init"]
    /\ log' = << >>
    /\ UNCHANGED <<store, nextPk, databases, handles, cache, pgTables, rows, seq, inflight>>

(***************************************************************************)
(* Operations of the introspection service, called on a registered alias   *)
(***************************************************************************)
\* names a caller may pass to create_schema and delete_schema
NameInputs ==
    {EMPTY, <<" ", "\t">>,
     <<" ">> \o <<"P", "G", "_", "C", "a", "t", "a", "l", "o", "g">> \o <<" ">>,
     <<"I", "n", "f", "o", "r", "m", "a", "t", "i", "o", "n", "_", "S", "C", "H", "E", "M", "A">>,
     <<"P", "g", "_", "T", "o", "a", "s", "t">>,
     <<" ", "p", "g", "_", "x">>,
     S_S, <<" ", "s", " ">>}

\* the schemas of the model's PostgreSQL server and the tables each may hold
SchemaNames == {S_S, S_SX}
TablesIn(schema) == IF schema = S_S THEN {T_T, T_XT} ELSE IF schema = S_SX THEN {T_T} ELSE {}

ListSchemas(alias, refresh) ==
    /\ Registered(alias)
    /\ \E a \in {GetSchemas(W0, pgTables, alias, refresh)} :
          /\ Commit(a.w)
          /\ resp' = [op |-> "get_schemas", alias |-> alias, refresh |-> refresh,
                      r |-> a.r, hits |-> a.w.hits]
    /\ UNCHANGED <<store, nextPk, pgTables, rows, seq>>

ListTables(alias, schema, refresh) ==
    /\ Registered(alias)
    /\ \E a \in {GetTables(W0, pgTables, alias, schema, refresh)} :
          /\ Commit(a.w)
          /\ resp' = [op |-> "get_tables", alias |-> alias, schema |-> schema, refresh |-> refresh,
                      r |-> a.r, hits |-> a.w.hits]
    /\ UNCHANGED <<store, nextPk, pgTables, rows, seq>>

TableMeta(alias, schema, table, refresh) ==
    /\ Registered(alias)
    /\ \E a \in {GetTableMeta(W0, pgTables, alias, schema, table, refresh)} :
          /\ Commit(a.w)
          /\ resp' = [op |-> "get_table_meta", alias |-> alias, schema |-> schema, table |-> table,
                      refresh |-> refresh, r |-> a.r, hits |-> a.w.hits]
    /\ UNCHANGED <<store, nextPk, pgTables, rows, seq>>

DoCreateSchema(alias, name) ==
    /\ Registered(alias)
    /\ \E a \in {CreateSchema(W0, pgTables, alias, name)} :
          /\ Commit(a.w)
          /\ pgTables' = a.pg
          /\ rows' = RowsAfter(a.pg, rows)
          /\ seq' = SeqAfter(a.pg, seq)
          /\ resp' = [op |-> "create_schema", alias |-> alias, name |-> name, r |-> a.r]
    /\ UNCHANGED <<store, nextPk>>

DoDeleteSchema(alias, name, force) ==
    /\ Registered(alias)
    /\ \E a \in {DeleteSchema(W0, pgTables, alias, name, force)} :
          /\ Commit(a.w)
          /\ pgTables' = a.pg
          /\ rows' = RowsAfter(a.pg, rows)
          /\ seq' = SeqAfter(a.pg, seq)
          /\ resp' = [op |-> "delete_schema", alias |-> alias, name |-> name, force |-> force,
                      r |-> a.r]
    /\ UNCHANGED <<store, nextPk>>

(***************************************************************************)
(* The environment: DDL issued outside the editor, cache expiry            *)
(***************************************************************************)
PgCreateTable(schema, table) ==
    /\ PgHasSchema(pgTables, schema)
    /\ table \in TablesIn(schema) \ pgTables[schema]
    /\ pgTables' = [pgTables EXCEPT ![schema] = @ \cup {table}]
    /\ log' = << >>
    /\ resp' = [op |-> "pg_create_table"]
    /\ UNCHANGED <<store, nextPk, databases, handles, cache, rows, seq, inflight>>

PgDropTable(schema, table) ==
    /\ PgHasTable(pgTables, schema, table)
    /\ pgTables' = [pgTables EXCEPT ![schema] = @ \ {table}]
    /\ rows' = RowsAfter(pgTables', rows)
    /\ seq' = SeqAfter(pgTables', seq)
    /\ log' = << >>
    /\ resp' = [op |-> "pg_drop_table"]
    /\ UNCHANGED <<store, nextPk, databases, handles, cache, inflight>>

\* the entries set INTROSPECTION_CACHE_TIMEOUT ago expire
CacheExpire ==
    /\ DOMAIN cache # {}
    /\ cache' = << >>
    /\ log' = << >>
    /\ resp' = [op |-> "cache_expire"]
    /\ UNCHANGED <<store, nextPk, databases, handles, pgTables, rows, seq, inflight>>

(***************************************************************************)
(* Specifications of the introspection service on one registered alias     *)
(***************************************************************************)
A1 == AliasOf(1, 1)
Cfg(user, pk, database, host, password) ==
    [user |-> user, name |-> database, alias |-> AliasOf(user, pk), host |-> host, port |-> 5432,
     database |-> database, schema |-> "public", username |-> "editor", password |-> password]

Idle == [op |-> "init"]

IntroInit ==
    /\ store = [pk \in Pks |-> IF pk = 1 THEN Cfg(1, 1, "d1", "h1", "pw1") ELSE NoCfg]
    /\ nextPk = 2
    /\ databases = [a \in Aliases |->
                      IF a = DEFAULT THEN DefaultDescriptor
                      ELSE IF a = A1 THEN GetConnectionConfig(store[1]) ELSE Absent]
    /\ handles = [a \in Aliases |-> NoHandle]
    /\ cache = << >>
    /\ pgTables = [n \in SchemaNames |-> TablesIn(n)]
    /\ rows = << >>
    /\ seq = 1
    /\ log = << >>
    /\ resp = Idle
    /\ inflight = NoRequest

\* cache scoping: every introspection call on a catalog that does not change
KeysNext ==
    \/ \E refresh \in BOOLEAN : ListSchemas(A1, refresh)
    \/ \E schema \in SchemaNames, refresh \in BOOLEAN : ListTables(A1, schema, refresh)
    \/ \E schema \in SchemaNames : \E table \in TablesIn(schema) : \E refresh \in BOOLEAN :
          TableMeta(A1, schema, table, refresh)
    \/ CacheExpire

SpecKeys == IntroInit /\ [][KeysNext]_vars

\* schema DDL on the schema s, with tables created behind the editor's back
SchemaNext ==
    \/ ListSchemas(A1, FALSE)
    \/ ListTables(A1, S_S, FALSE)
    \/ \E table \in TablesIn(S_S) : TableMeta(A1, S_S, table, FALSE)
    \/ \E name \in NameInputs : DoCreateSchema(A1, name)
    \/ \E name \in NameInputs, force \in BOOLEAN : DoDeleteSchema(A1, name, force)
    \/ \E table \in TablesIn(S_S) : PgCreateTable(S_S, table)

SpecSchema == IntroInit /\ [][SchemaNext]_vars

(***************************************************************************)
(* Properties of the introspection service                                 *)
(***************************************************************************)
HasHits == resp.op \in {"get_schemas", "get_tables", "get_table_meta"}

\* C5: a cached value returned by an introspection call was written by a call
\* for the same scope (kind, alias, schema, table): populating the cache for
\* one scope is never observed by a call for another scope.
C5_CacheScopeInjective ==
    HasHits => \A i \in 1..Len(resp.hits) : resp.hits[i].want = resp.hits[i].got

IsDrop(stmt) == stmt.sql[1] = Lit("DROP SCHEMA IF EXISTS ")
IsDDL(stmt) == stmt.sql[1] \in {Lit("DROP SCHEMA IF EXISTS "), Lit("CREATE SCHEMA IF NOT EXISTS ")}
NoStatement(l, P(_)) == \A i \in 1..Len(l) : ~P(l[i])

\* C8: delete_schema without force on a schema that holds tables at the time
\* of the call, whatever the cache says, fails with an error carrying the
\* number of tables, issues no DROP and leaves the schema and its tables.
C8_DropGuard ==
    [][(/\ resp'.op = "delete_schema"
        /\ ~resp'.force
        /\ PgHasSchema(pgTables, Strip(resp'.name))
        /\ pgTables[Strip(resp'.name)] # {})
       => (/\ ~resp'.r.ok
           /\ resp'.r.error = "contains tables"
           /\ resp'.r.n = Cardinality(pgTables[Strip(resp'.name)])
           /\ NoStatement(log', IsDrop)
           /\ pgTables' = pgTables)]_vars

C8_Witness ==
    /\ resp.op = "delete_schema"
    /\ ~resp.force
    /\ resp.r.error = "contains tables"
    /\ resp.r.n = 2
    /\ PgHasSchema(pgTables, S_S) /\ pgTables[S_S] = {T_T, T_XT}

\* C9: after delete_schema returned success the cache holds no schema list of
\* the alias and no table list, column list or primary key of the schema.
C9_DropInvalidatesScope ==
    (resp.op = "delete_schema" /\ resp.r.ok) =>
        LET name == Strip(resp.name)
        IN /\ ~CacheHas(cache, CacheKey(EDITOR, <<K_SCHEMAS, resp.alias>>))
           /\ ~CacheHas(cache, CacheKey(EDITOR, <<K_TABLES, resp.alias, name>>))
           /\ \A table \in TableNames :
                /\ ~CacheHas(cache, CacheKey(EDITOR, <<K_COLUMNS, resp.alias, name, table>>))
                /\ ~CacheHas(cache, CacheKey(EDITOR, <<K_PK, resp.alias, name, table>>))

\* the inputs that are empty, blank or name a system schema
RejectedNames == NameInputs \ {S_S, <<" ", "s", " ">>}

\* C10: create_schema and delete_schema called with an empty, blank or
\* system schema name return an error, execute no statement and leave the
\* cache and the catalog as they were.
C10_ReservedNamesRejected ==
    [][(resp'.op \in {"create_schema", "delete_schema"} /\ resp'.name \in RejectedNames)
       => (/\ ~resp'.r.ok
           /\ log' = << >>
           /\ cache' = cache
           /\ pgTables' = pgTables)]_vars

C10_Witness ==
    /\ resp.op = "create_schema"
    /\ resp.name = <<"P", "g", "_", "T", "o", "a", "s", "t">>
    /\ ~resp.r.ok
    /\ DOMAIN cache # {}

(***************************************************************************)
(* Specification of batched row updates and deletions on the data table    *)
(***************************************************************************)
RECURSIVE SeqsUpTo(_, _)
\* the sequences over S of length at most n
SeqsUpTo(S, n) ==
    IF n = 0 THEN {<< >>}
    ELSE LET shorter == SeqsUpTo(S, n - 1)
         IN shorter \cup {Append(q, x) : q \in {r \in shorter : Len(r) = n - 1}, x \in S}

PkInputs == {None, Dict(NoKeys)} \cup {Dict([id |-> IntV(Digit(i))]) : i \in Ids}
ColumnInputs ==
    {Dict(NoKeys), Dict([v |-> IntV("7")]), Dict([v |-> StrV("abc")]), Dict([v |-> FloatV("inf")]),
     List(<<IntV("7")>>)}
\* a row without a usable primary key is rejected before its columns are read
RowInputs ==
    {[pk |-> p, columns |-> Dict(NoKeys)] : p \in {None, Dict(NoKeys)}}
    \cup {[pk |-> Dict([id |-> IntV(Digit(i))]), columns |-> c] : i \in Ids, c \in ColumnInputs}
SavePayloads == {Dict([rows |-> List(b)]) : b \in SeqsUpTo(RowInputs, MaxBatch)}
DeletePayloads ==
    {Dict([pks |-> List(b)]) : b \in SeqsUpTo(PkInputs \cup {Dict([id |-> StrV("abc")])}, MaxBatch)}
StoredValues == {IntV("0"), IntV("7")}

RowsInit ==
    /\ store = [pk \in Pks |-> IF pk = 1 THEN Cfg(1, 1, "d1", "h1", "pw1") ELSE NoCfg]
    /\ nextPk = 2
    /\ databases = [a \in Aliases |->
                      IF a = DEFAULT THEN DefaultDescriptor
                      ELSE IF a = A1 THEN GetConnectionConfig(store[1]) ELSE Absent]
    /\ handles = [a \in Aliases |-> NoHandle]
    /\ cache = << >>
    /\ pgTables = [n \in SchemaNames |-> TablesIn(n)]
    /\ \E present \in SUBSET Ids : rows \in [present -> StoredValues]
    /\ seq = 1
    /\ log = << >>
    /\ resp = Idle
    /\ inflight = NoRequest

RowsNext ==
    \/ resp = Idle /\ \E payload \in SavePayloads : TableSaveRows(1, A1, DataSchema, DataTable, payload)
    \/ resp = Idle /\ \E payload \in DeletePayloads : TableDeleteRows(1, A1, DataSchema, DataTable, payload)
    \/ Deliver

SpecRows == RowsInit /\ [][RowsNext]_vars

(***************************************************************************)
(* Properties of the batched row operations                                *)
(***************************************************************************)
\* what the claims say of an input row, read off the request alone
HasPk(pk) == IsDict(pk) /\ "id" \in DOMAIN pk.m
SetsV(row) == IsDict(row.columns) /\ "v" \in DOMAIN row.columns.m
RowInvalid(row) == ~HasPk(row.pk)
RowDbRejected(row) == HasPk(row.pk) /\ SetsV(row) /\ row.columns.m.v = StrV("abc")
RowCrashes(row) ==
    HasPk(row.pk) /\ (IsList(row.columns) \/ (SetsV(row) /\ row.columns.m.v = FloatV("inf")))
RowFine(row) == HasPk(row.pk) /\ ~RowDbRejected(row) /\ ~RowCrashes(row)
PkDbRejected(pk) == HasPk(pk) /\ pk.m.id = StrV("abc")
IdOfPk(pk) == CHOOSE i \in Ids \cup {0} : (i \in Ids /\ pk.m.id = IntV(Digit(i))) \/ (i = 0 /\ \A j \in Ids : pk.m.id # IntV(Digit(j)))

RECURSIVE ExpectedUpdate(_, _)
\* the table after the UPDATE of every row of the batch, in order
ExpectedUpdate(rs, batch) ==
    IF Len(batch) = 0 THEN rs
    ELSE LET row == batch[1]
             hit == RowFine(row) /\ SetsV(row) /\ IdOfPk(row.pk) \in DOMAIN rs
         IN ExpectedUpdate(IF hit THEN [rs EXCEPT ![IdOfPk(row.pk)] = row.columns.m.v] ELSE rs,
                           Tail(batch))

\* the table after the DELETE of every mapping of the batch
ExpectedDelete(rs, pks) ==
    LET gone == {IdOfPk(pks[i]) : i \in {j \in 1..Len(pks) : HasPk(pks[j])}}
    IN [i \in (DOMAIN rs) \ gone |-> rs[i]]

SaveRan(r) == r.op = "save_rows" /\ r.status = "200"
\* the request passed the checks that precede the batch
SaveReached(r) == r.op = "save_rows" /\ r.status \in {"200", "500"}
DeleteRan(r) == r.op = "delete_rows" /\ r.status = "200"
AnyRow(batch, P(_)) == \E i \in 1..Len(batch) : P(batch[i])
ErrorRows(r) == {r.errors[i].idx : i \in 1..Len(r.errors)}

\* C1: table_save_rows is all-or-nothing: when a row of the batch has no valid
\* primary key or its UPDATE is rejected by the database, the table is left as
\* it was and the response carries the error list and no count; when no row
\* produced such an error, the UPDATE of every row is committed.
C1_UpdateAllOrNothing ==
    [][SaveReached(resp') =>
        LET batch == resp'.payload.m.rows.items
        IN IF AnyRow(batch, RowInvalid) \/ AnyRow(batch, RowDbRejected)
           THEN /\ rows' = rows
                /\ resp'.status = "200" /\ ~resp'.ok /\ Len(resp'.errors) > 0 /\ resp'.count = 0
           ELSE /\ rows' = ExpectedUpdate(rows, batch)
                /\ resp'.status = "200" /\ resp'.ok /\ Len(resp'.errors) = 0]_vars

\* whatever the response, a batch with an error or an exception changes no row
\* and a batch without one applies every UPDATE
SaveRowsAtomic ==
    [][SaveReached(resp') =>
        LET batch == resp'.payload.m.rows.items
        IN IF AnyRow(batch, RowInvalid) \/ AnyRow(batch, RowDbRejected) \/ AnyRow(batch, RowCrashes)
           THEN rows' = rows
           ELSE rows' = ExpectedUpdate(rows, batch)]_vars

\* C2: table_delete_rows is all-or-nothing: when a mapping of the batch lacks
\* the primary key or its DELETE is rejected by the database, no row is
\* removed and the response carries the error list and no count; otherwise
\* every deletion is committed.
C2_DeleteAllOrNothing ==
    [][DeleteRan(resp') =>
        LET pks == resp'.payload.m.pks.items
        IN IF AnyRow(pks, LAMBDA pk : ~HasPk(pk)) \/ AnyRow(pks, PkDbRejected)
           THEN rows' = rows /\ ~resp'.ok /\ Len(resp'.errors) > 0 /\ resp'.count = 0
           ELSE rows' = ExpectedDelete(rows, pks) /\ resp'.ok /\ Len(resp'.errors) = 0]_vars

\* a DELETE of an existing row ran before the database rejected another, and the row is still there
C2_Witness ==
    /\ DeleteRan(resp)
    /\ resp.payload.m.pks.items = <<Dict([id |-> IntV("1")]), Dict([id |-> StrV("abc")])>>
    /\ Len(resp.errors) = 1
    /\ 1 \in DOMAIN rows

\* C3: when exactly one row's UPDATE is rejected by the database and every
\* other row of the batch is valid, the error list names that row and no other.
C3_ErrorsNameFailingRow ==
    SaveRan(resp) =>
        LET batch == resp.payload.m.rows.items
            rejected == {i \in 1..Len(batch) : RowDbRejected(batch[i])}
        IN (Cardinality(rejected) = 1 /\ \A i \in (1..Len(batch)) \ rejected : RowFine(batch[i]))
           => ErrorRows(resp) = rejected

(***************************************************************************)
(* Specification of the connection registry: configurations are added,     *)
(* edited and deleted while requests execute statements on their aliases   *)
(***************************************************************************)
ConnInit ==
    /\ store = [pk \in Pks |-> NoCfg]
    /\ nextPk = 1
    /\ databases = [a \in Aliases |-> IF a = DEFAULT THEN DefaultDescriptor ELSE Absent]
    /\ handles = [a \in Aliases |-> NoHandle]
    /\ cache = << >>
    /\ pgTables = [n \in SchemaNames |-> TablesIn(n)]
    /\ rows = << >>
    /\ seq = 1
    /\ log = << >>
    /\ resp = Idle
    /\ inflight = NoRequest

\* the field of a stored configuration, or a default when there is none
Kept(pk, field, default) == IF store[pk] # NoCfg THEN store[pk][field] ELSE default

ConnNext ==
    \/ resp = Idle /\ \E user \in Users, host \in Hosts, database \in DbNames, password \in {"pw1"},
                         reachable \in BOOLEAN :
          DatabaseConfigAdd(user, database, host, database, password, reachable)
    \/ resp = Idle /\ \E user \in Users, pk \in Pks, password \in Passwords \cup {""} :
          DatabaseConfigEdit(user, pk, Kept(pk, "name", "d1"), Kept(pk, "host", "h1"),
                             Kept(pk, "database", "d1"), password, TRUE)
    \/ resp = Idle /\ \E user \in Users, pk \in Pks, close \in CloseOutcomes :
          DatabaseConfigDelete(user, pk, close)
    \/ resp = Idle /\ \E user \in Users, alias \in ConfigAliases : SchemaCreate(user, alias, "POST", S_S)
    \/ Deliver

SpecConn == ConnInit /\ [][ConnNext]_vars

\* the stored configuration that owns an alias
ConfigOf(alias) == store[CHOOSE pk \in Pks : store[pk] # NoCfg /\ store[pk].alias = alias]

\* C4: every statement a request executes on an alias, after its
\* ensure_database_connection returned, goes over a connection opened with the
\* parameters of the alias's current stored configuration, also when a wrapper
\* for the alias was created and used before the configuration was changed.
C4_LiveHandleMatchesConfig ==
    \A i \in 1..Len(log) :
        resp.op = "schema_create" => log[i].via = GetConnectionConfig(ConfigOf(log[i].alias))

(***************************************************************************)
(* Specification of the views: two users send grid, save, insert, delete   *)
(* and schema requests for aliases, schemas and tables that may not exist  *)
(***************************************************************************)
ViewsInit ==
    /\ store = [pk \in Pks |-> IF pk = 1 THEN Cfg(1, 1, "d1", "h1", "pw1") ELSE NoCfg]
    /\ nextPk = 2
    /\ databases = [a \in Aliases |-> IF a = DEFAULT THEN DefaultDescriptor ELSE Absent]
    /\ handles = [a \in Aliases |-> NoHandle]
    /\ cache = << >>
    /\ pgTables = (S_S :> {T_T})
    /\ rows = << >>
    /\ seq = 1
    /\ log = << >>
    /\ resp = Idle
    /\ inflight = NoRequest

ViewAliases == {A1, AliasOf(1, 2)}
ViewSchemas == {S_S, S_R}
ViewTables == {T_T, T_XT}
GridQueries ==
    {[refresh |-> FALSE, sort |-> "", order |-> "", filters |-> NoKeys, per_page |-> "", page |-> ""],
     [refresh |-> TRUE, sort |-> "v", order |-> "DESC", filters |-> [v |-> " 7 "], per_page |-> "500",
      page |-> "0"],
     [refresh |-> FALSE, sort |-> "zz", order |-> "x", filters |-> [zz |-> "7", id |-> "1"],
      per_page |-> "1", page |-> "1"],
     [refresh |-> FALSE, sort |-> "id", order |-> "Asc", filters |-> [v |-> " "], per_page |-> "x",
      page |-> "2"]}
ViewSavePayloads ==
    {InvalidJson,
     Dict([rows |-> List(<<[pk |-> Dict([id |-> IntV("1")]), columns |-> Dict([v |-> IntV("7")])]>>)]),
     Dict([rows |-> List(<<[pk |-> None, columns |-> Dict(NoKeys)]>>)])}
ViewInsertPayloads ==
    {InvalidJson, Dict(NoKeys), Dict([columns |-> Dict([v |-> StrV(" 7 ")])]),
     Dict([columns |-> Dict([id |-> IntV("1"), zz |-> IntV("7")])])}
ViewDeletePayloads ==
    {InvalidJson, Dict([pks |-> List(<<Dict([id |-> IntV("1")])>>)])}

ViewsNext ==
    \/ resp = Idle /\ \E user \in Users, alias \in ViewAliases, schema \in ViewSchemas :
          \E table \in ViewTables, query \in GridQueries : TableGrid(user, alias, schema, table, query)
    \/ resp = Idle /\ \E user \in Users, alias \in ViewAliases, schema \in ViewSchemas :
          \E table \in ViewTables, payload \in ViewSavePayloads :
             TableSaveRows(user, alias, schema, table, payload)
    \/ resp = Idle /\ seq <= MaxId /\ \E user \in Users, alias \in ViewAliases, schema \in ViewSchemas :
          \E table \in ViewTables, payload \in ViewInsertPayloads :
             TableInsertRow(user, alias, schema, table, payload)
    \/ resp = Idle /\ \E user \in Users, alias \in ViewAliases, schema \in ViewSchemas :
          \E table \in ViewTables, payload \in ViewDeletePayloads :
             TableDeleteRows(user, alias, schema, table, payload)
    \/ resp = Idle /\ \E user \in Users, alias \in ViewAliases, refresh \in BOOLEAN :
          SchemaList(user, alias, refresh)
    \/ resp = Idle /\ \E user \in Users, alias \in ViewAliases, method \in {"GET", "POST"} :
          \E raw \in {S_R, <<" ", "p", "g", "_", "x">>} : SchemaCreate(user, alias, method, raw)
    \/ resp = Idle /\ \E user \in Users, alias \in ViewAliases, method \in {"GET", "POST"} :
          \E schema \in ViewSchemas, force \in BOOLEAN : SchemaDelete(user, alias, method, schema, force)
    \/ Deliver

SpecViews == ViewsInit /\ [][ViewsNext]_vars

(***************************************************************************)
(* Properties of the statements the views build and of their access checks *)
(***************************************************************************)
\* the first words of the statements built by table_grid, table_save_rows,
\* table_insert_row, table_delete_rows, create_schema and delete_schema
BuiltHeads ==
    {Lit("SELECT * FROM "), Lit("SELECT COUNT(*) FROM "), Lit("UPDATE "), Lit("INSERT INTO "),
     Lit("DELETE FROM "), Lit("CREATE SCHEMA IF NOT EXISTS "), Lit("DROP SCHEMA IF EXISTS ")}

\* the fixed SQL text between names and placeholders
SqlWords ==
    BuiltHeads \cup
    {Lit("."), Lit(" WHERE "), Lit("1=1"), Lit("::text ILIKE "), Lit(" AND "), Lit(" ORDER BY "),
     Lit(" "), Lit("ASC"), Lit("DESC"), Lit(" LIMIT "), Lit(" OFFSET "), Lit(" SET "), Lit(" = "),
     Lit(", "), Lit(" ("), Lit(") VALUES ("), Lit(")"), Lit(" CASCADE")}

Placeholders(sql) == Cardinality({i \in 1..Len(sql) : sql[i] = Placeholder})

\* C6: in every statement built by the grid, save, insert, delete-rows,
\* create-schema and drop-schema operations, each piece of the text is fixed
\* SQL wording, a name that went through quote_name, or a placeholder, and the
\* statement carries exactly one bound parameter per placeholder: no name
\* enters unquoted and no data value enters the text.
C6_NamesQuotedValuesBound ==
    \A i \in 1..Len(log) :
        log[i].sql[1] \in BuiltHeads =>
            /\ \A j \in 1..Len(log[i].sql) :
                  \/ log[i].sql[j] \in SqlWords
                  \/ log[i].sql[j].t = "quoted"
                  \/ log[i].sql[j] = Placeholder
            /\ Placeholders(log[i].sql) = Len(log[i].params)

\* a page SELECT with a filter pattern, a limit and an offset was executed
C6_Witness ==
    /\ resp.op = "grid"
    /\ resp.status = "200"
    /\ \E i \in 1..Len(log) :
          /\ log[i].sql[1] = Lit("SELECT * FROM ")
          /\ log[i].params = <<Pattern("7"), 200, 0>>
          /\ \E j \in 1..Len(log[i].sql) : log[i].sql[j] = QuoteName("v")

ViewOps ==
    {"grid", "save_rows", "insert_row", "delete_rows", "schema_list", "schema_create", "schema_delete"}
TableOps == {"grid", "save_rows", "insert_row", "delete_rows"}

\* the statement names schema.table in its text
OnTable(stmt, schema, table) ==
    \E j \in 1..Len(stmt.sql) :
        stmt.sql[j].t \in {"quoted", "raw"} /\ stmt.sql[j].s \in {schema, table}

\* the schema list and the table list of the connection before the request
SchemasSeen(alias) == GetSchemas(W0, pgTables, alias, FALSE).r
TablesSeen(r) ==
    GetTables(W0, pgTables, r.alias, r.schema, r.op = "grid" /\ r.payload.refresh).r

\* the user has a stored configuration with this alias
HasConfig(user, alias) ==
    \E pk \in Pks : store[pk] # NoCfg /\ store[pk].user = user /\ store[pk].alias = alias

\* C7: a view request for an alias the requesting user has no configuration
\* for is answered 404 with the registry, the connection wrappers, the cache
\* and the database untouched and no statement executed; a table request for
\* a schema or table that is not in the connection's lists, and a drop of a
\* schema not in the list, is refused without a statement naming it.
C7_UnownedOrUnknownRejected ==
    [][resp'.op \in ViewOps =>
        /\ ~HasConfig(resp'.user, resp'.alias) =>
              /\ resp'.status = "404"
              /\ databases' = databases /\ handles' = handles /\ cache' = cache
              /\ log' = << >>
              /\ pgTables' = pgTables /\ rows' = rows
        /\ (/\ HasConfig(resp'.user, resp'.alias)
            /\ resp'.op \in TableOps
            /\ ~InSeq(resp'.schema, SchemasSeen(resp'.alias)) \/ ~InSeq(resp'.table, TablesSeen(resp')))
           => /\ resp'.status \in {"Unknown schema", "Unknown table"}
              /\ \A i \in 1..Len(log') : ~OnTable(log'[i], resp'.schema, resp'.table)
              /\ rows' = rows
        /\ (/\ HasConfig(resp'.user, resp'.alias)
            /\ resp'.op = "schema_delete"
            /\ ~InSeq(resp'.schema, SchemasSeen(resp'.alias)))
           => /\ resp'.status = "Unknown schema"
              /\ NoStatement(log', IsDDL)
              /\ pgTables' = pgTables]_vars

\* user 2 asked for user 1's alias after user 1 had installed and used it
C7_Witness ==
    /\ resp.op = "save_rows"
    /\ resp.user = 2 /\ resp.alias = A1
    /\ resp.status = "404"
    /\ databases[A1] # Absent
    /\ handles[A1] # NoHandle
    /\ 1 \in DOMAIN rows

(***************************************************************************)
(* Specification of the registry functions of editor/db_manager.py, called *)
(* for any alias while connections are opened on the registered ones       *)
(***************************************************************************)
RegistryInit ==
    /\ store = [pk \in Pks |-> Cfg(pk, pk, "d1", "h1", "pw1")]
    /\ nextPk = MaxPk + 1
    /\ databases = [a \in Aliases |-> IF a = DEFAULT THEN DefaultDescriptor ELSE Absent]
    /\ handles = [a \in Aliases |-> NoHandle]
    /\ cache = << >>
    /\ pgTables = [n \in SchemaNames |-> TablesIn(n)]
    /\ rows = << >>
    /\ seq = 1
    /\ log = << >>
    /\ resp = Idle
    /\ inflight = NoRequest

\* ensure_database_connection(db_alias, user)
DoEnsureConnection(user, alias) ==
    /\ IF OwnedPks(store, user, alias) = {}
       THEN /\ Commit(W0)
            /\ resp' = [op |-> "ensure_connection", alias |-> alias, r |-> "DoesNotExist"]
       ELSE /\ Commit(EnsureDatabaseConnection(W0, store, user, alias))
            /\ resp' = [op |-> "ensure_connection", alias |-> alias, r |-> "True"]
    /\ UNCHANGED <<store, nextPk, pgTables, rows, seq>>

\* remove_database_connection(db_alias)
DoRemoveConnection(alias, close) ==
    /\ Commit(RemoveDatabaseConnection(W0, alias, close))
    /\ resp' = [op |-> "remove_connection", alias |-> alias, close |-> close]
    /\ UNCHANGED <<store, nextPk, pgTables, rows, seq>>

RegistryNext ==
    \/ \E user \in Users, alias \in Aliases : DoEnsureConnection(user, alias)
    \/ \E alias \in Aliases, close \in CloseOutcomes : DoRemoveConnection(alias, close)
    \/ \E alias \in Aliases : ListSchemas(alias, TRUE)

SpecRegistry == RegistryInit /\ [][RegistryNext]_vars

\* C11: remove_database_connection leaves the registry as it was for the
\* alias 'default'; for any other alias the alias is absent afterwards, also
\* when closing its connection raises, and the entry of every other alias is
\* what it was; so 'default' is registered after every step.
C11_RemovePostcondition ==
    [][/\ databases'[DEFAULT] # Absent
       /\ resp'.op = "remove_connection" =>
             IF resp'.alias = DEFAULT THEN databases' = databases
             ELSE /\ databases'[resp'.alias] = Absent
                  /\ \A a \in Aliases \ {resp'.alias} : databases'[a] = databases[a]]_vars

\* the alias was removed while the close of its open connection raised
C11_Witness ==
    /\ resp.op = "remove_connection"
    /\ resp.alias = A1 /\ resp.close = "raised"
    /\ databases[A1] = Absent
    /\ handles[A1] # NoHandle /\ handles[A1].connection # NotConnected
    /\ handles[DEFAULT] # NoHandle

(***************************************************************************)
(* Specification of a config deletion racing a request: the request runs   *)
(* ensure_database_connection in a thread of its own (connections.databases *)
(* is shared by the threads of the process, the wrappers are per thread)   *)
(***************************************************************************)
\* db_manager.py line 30: the request has read its configuration
EnsureBegin(user, alias) ==
    /\ inflight = NoRequest
    /\ OwnedPks(store, user, alias) # {}
    /\ inflight' = [user |-> user, alias |-> alias,
                    db_config |-> store[CHOOSE pk \in OwnedPks(store, user, alias) : TRUE]]
    /\ UNCHANGED <<store, nextPk, databases, handles, cache, pgTables, rows, seq, log, resp>>

\* db_manager.py lines 37-43: the registry entry is assigned from the
\* configuration read, the request's own wrapper is closed, the request ends
EnsureFinish ==
    /\ inflight # NoRequest
    /\ databases' = [databases EXCEPT ![inflight.alias] = GetConnectionConfig(inflight.db_config)]
    /\ inflight' = NoRequest
    /\ log' = << >>
    /\ resp' = [op |-> "ensure_connection", alias |-> inflight.alias, r |-> "True"]
    /\ UNCHANGED <<store, nextPk, handles, cache, pgTables, rows, seq>>

RaceNext ==
    \/ \E user \in Users, alias \in ConfigAliases : EnsureBegin(user, alias)
    \/ EnsureFinish
    \/ \E user \in Users, pk \in Pks, close \in CloseOutcomes : DatabaseConfigDelete(user, pk, close)
    \/ \E alias \in Aliases : ListSchemas(alias, TRUE)

SpecRace == RegistryInit /\ [][RaceNext]_vars

\* C12: when no request is in flight, the registry holds no entry for an
\* alias that has no stored configuration: a deleted configuration's alias is
\* gone once the delete and the requests that overlapped it have finished.
C12_DeleteEvictsConnection ==
    inflight = NoRequest =>
        \A alias \in ConfigAliases :
            databases[alias] # Absent => \E pk \in Pks : store[pk] # NoCfg /\ store[pk].alias = alias

(***************************************************************************)
(* Specification of the table requests of one user on the tables of one    *)
(* schema: a table with a serial key, one with a text key, one without a   *)
(* primary key and one whose only column is its serial key                 *)
(***************************************************************************)
TablesInit ==
    /\ store = [pk \in Pks |-> IF pk = 1 THEN Cfg(1, 1, "d1", "h1", "pw1") ELSE NoCfg]
    /\ nextPk = 2
    /\ databases = [a \in Aliases |-> IF a = DEFAULT THEN DefaultDescriptor ELSE Absent]
    /\ handles = [a \in Aliases |-> NoHandle]
    /\ cache = << >>
    /\ pgTables = (S_S :> {T_T, T_XT, T_NP, T_Q})
    /\ rows = << >>
    /\ seq = 1
    /\ log = << >>
    /\ resp = Idle
    /\ inflight = NoRequest

AllTables == {T_T, T_XT, T_NP, T_Q}

\* the "columns" objects of the insert requests
InsertColumnInputs ==
    {NoKeys,
     [id |-> IntV("1"), zz |-> IntV("7")],
     [v |-> StrV(" 7 ")],
     [v |-> StrV(" ")],
     [v |-> FloatV("inf")],
     [k |-> StrV("abc"), w |-> None],
     [k |-> StrV(" "), w |-> StrV("abc")],
     [a |-> IntV("7")],
     [a |-> None, b |-> StrV("abc")]}
InsertPayloads == {Dict([columns |-> Dict(c)]) : c \in InsertColumnInputs}

\* the rows of the save requests: columns that name the key and unknown
\* columns, no columns, no key, a key under another name, a key for both
\* keyed tables, a value no column type takes
TableRowInputs ==
    {[pk |-> Dict([id |-> IntV("1")]), columns |-> Dict([id |-> IntV("2"), zz |-> IntV("7")])],
     [pk |-> Dict([id |-> IntV("1")]), columns |-> None],
     [pk |-> None, columns |-> Dict([v |-> IntV("7")])],
     [pk |-> Dict([zz |-> IntV("1")]), columns |-> Dict([v |-> IntV("7")])],
     [pk |-> Dict([id |-> IntV("1"), k |-> StrV("abc")]),
      columns |-> Dict([v |-> IntV("7"), w |-> StrV("abc"), id |-> IntV("2"), zz |-> IntV("1")])],
     [pk |-> Dict([id |-> IntV("1"), k |-> StrV("abc")]), columns |-> Dict([v |-> FloatV("inf")])]}
TableSavePayloads ==
    {InvalidJson} \cup {Dict([rows |-> List(b)]) : b \in SeqsUpTo(TableRowInputs, MaxBatch)}

TablePkInputs ==
    {None, Dict([zz |-> IntV("1")]), Dict([id |-> IntV("1"), k |-> StrV("abc")])}
TableDeletePayloads ==
    {InvalidJson} \cup {Dict([pks |-> List(b)]) : b \in SeqsUpTo(TablePkInputs, MaxBatch)}

TablesNext ==
    \/ resp = Idle /\ seq <= MaxId /\ \E table \in AllTables, payload \in InsertPayloads :
          TableInsertRow(1, A1, S_S, table, payload)
    \/ resp = Idle /\ \E table \in AllTables, payload \in TableSavePayloads :
          TableSaveRows(1, A1, S_S, table, payload)
    \/ resp = Idle /\ \E table \in AllTables, payload \in TableDeletePayloads :
          TableDeleteRows(1, A1, S_S, table, payload)
    \/ Deliver

SpecTables == TablesInit /\ [][TablesNext]_vars

(***************************************************************************)
(* Properties of table_insert_row                                          *)
(***************************************************************************)
IsInsert(stmt) == stmt.sql[1] = Lit("INSERT INTO ")
PieceAt(sql, piece) == CHOOSE j \in 1..Len(sql) : sql[j] = piece

\* the names between "(" and ") VALUES (" of an INSERT statement
InsertColumnList(sql) ==
    LET inner == SubSeq(sql, PieceAt(sql, Lit(" (")) + 1, PieceAt(sql, Lit(") VALUES (")) - 1)
        quoted == SelectSeq(inner, LAMBDA x : x.t = "quoted")
    IN [j \in 1..Len(quoted) |-> quoted[j].s]

\* the declared columns of a table, in declared order, without the
\* primary-key columns whose default draws from a sequence
InsertableColumns(table) ==
    SelectSeq(ColumnsOf(table),
              LAMBDA c : ~(InSeq(c.name, PkOf(table)) /\ c.column_default = NEXTVAL))

\* C13: the column list of the INSERT built by table_insert_row is the
\* declared columns of the table in declared order without the primary-key
\* columns whose default calls nextval, whatever keys the payload holds, and
\* the parameter of a nullable non-key column with a missing or empty value
\* is NULL.
C13_InsertColumnList ==
    resp.op = "insert_row" =>
        \A i \in 1..Len(log) :
            IsInsert(log[i]) =>
                LET want == InsertableColumns(resp.table)
                IN /\ InsertColumnList(log[i].sql) = Names(want)
                   /\ Len(log[i].params) = Len(want)
                   /\ \A j \in 1..Len(want) :
                         (/\ want[j].is_nullable
                          /\ ~InSeq(want[j].name, PkOf(resp.table))
                          /\ IsEmpty(Get(resp.payload.m.columns, want[j].name)))
                         => log[i].params[j] = None

\* the payload gave the serial key and an unknown key and no value for v
C13_Witness ==
    /\ resp.op = "insert_row" /\ resp.ok
    /\ resp.table = T_T
    /\ resp.payload.m.columns.m = [id |-> IntV("1"), zz |-> IntV("7")]
    /\ \E i \in 1..Len(log) :
          IsInsert(log[i]) /\ InsertColumnList(log[i].sql) = <<"v">> /\ log[i].params = <<None>>

\* a value that is missing, null or only blanks
Blank(val) == val = None \/ val = StrV(" ")

\* a column that the insert needs a value for: a primary-key column without a
\* sequence default, or a NOT NULL column outside the primary key
RequiredColumn(table, c) ==
    IF InSeq(c.name, PkOf(table)) THEN c.column_default # NEXTVAL ELSE ~c.is_nullable

InsertValidationErrors ==
    {"Primary key column is required (no sequence).",
     "Non-nullable column requires a value.",
     "No columns to insert"}

\* C14: table_insert_row answers with a validation error and executes no
\* INSERT when a primary-key column without a sequence default or a NOT NULL
\* column outside the primary key has a missing, null or blank value, and
\* when no column is left after the sequence-backed key columns are omitted.
C14_InsertValidation ==
    (/\ resp.op = "insert_row"
     /\ \/ \E i \in 1..Len(ColumnsOf(resp.table)) :
              /\ RequiredColumn(resp.table, ColumnsOf(resp.table)[i])
              /\ Blank(Get(resp.payload.m.columns, ColumnsOf(resp.table)[i].name))
        \/ InsertableColumns(resp.table) = << >>)
    => /\ ~resp.ok
       /\ resp.status \in InsertValidationErrors
       /\ \A i \in 1..Len(log) : ~IsInsert(log[i])

\* a text key of blanks only, with a value for the other column
C14_Witness ==
    /\ resp.op = "insert_row"
    /\ resp.table = T_XT
    /\ resp.payload.m.columns.m = [k |-> StrV(" "), w |-> StrV("abc")]
    /\ resp.status = "Primary key column is required (no sequence)."
    /\ log # << >>

(***************************************************************************)
(* Properties of table_save_rows and table_delete_rows                     *)
(***************************************************************************)
IsUpdate(stmt) == stmt.sql[1] = Lit("UPDATE ")
IsDelete(stmt) == stmt.sql[1] = Lit("DELETE FROM ")
QuotedNames(pieces) ==
    LET quoted == SelectSeq(pieces, LAMBDA x : x.t = "quoted")
    IN [j \in 1..Len(quoted) |-> quoted[j].s]
HasPiece(sql, piece) == \E j \in 1..Len(sql) : sql[j] = piece

\* the columns assigned by an UPDATE and the columns its WHERE clause tests
SetColumns(sql) ==
    IF HasPiece(sql, Lit(" WHERE "))
    THEN QuotedNames(SubSeq(sql, PieceAt(sql, Lit(" SET ")) + 1, PieceAt(sql, Lit(" WHERE ")) - 1))
    ELSE QuotedNames(SubSeq(sql, PieceAt(sql, Lit(" SET ")) + 1, Len(sql)))
WhereColumns(sql) ==
    IF HasPiece(sql, Lit(" WHERE "))
    THEN QuotedNames(SubSeq(sql, PieceAt(sql, Lit(" WHERE ")) + 1, Len(sql)))
    ELSE << >>

\* the key mapping of an item names every primary-key column of the table
ValidPk(table, pk) == IsDict(pk) /\ SeqToSet(PkOf(table)) \subseteq DOMAIN pk.m
\* the columns of a row that are columns of the table outside its primary key
ApplicableColumns(table, row) ==
    IF IsDict(row.columns)
    THEN {c \in DOMAIN row.columns.m :
             InSeq(c, Names(ColumnsOf(table))) /\ ~InSeq(c, PkOf(table))}
    ELSE {}
Updates == SelectSeq(log, IsUpdate)
Deletes == SelectSeq(log, IsDelete)

\* C15: every UPDATE of table_save_rows assigns only columns of the table
\* that are outside its primary key and tests every primary-key column in
\* its WHERE clause; a row that names no such column sends no statement and
\* gets no entry in the error list.
C15_UpdateColumns ==
    resp.op = "save_rows" =>
        /\ \A i \in 1..Len(Updates) :
              /\ SetColumns(Updates[i].sql) # << >>
              /\ \A j \in 1..Len(SetColumns(Updates[i].sql)) :
                    /\ InSeq(SetColumns(Updates[i].sql)[j], Names(ColumnsOf(resp.table)))
                    /\ ~InSeq(SetColumns(Updates[i].sql)[j], PkOf(resp.table))
              /\ WhereColumns(Updates[i].sql) = PkOf(resp.table)
              /\ PkOf(resp.table) # << >>
        /\ resp.status = "200" =>
              LET items == resp.payload.m.rows.items
              IN /\ Len(Updates) =
                       Cardinality({i \in 1..Len(items) :
                                       /\ ValidPk(resp.table, items[i].pk)
                                       /\ ApplicableColumns(resp.table, items[i]) # {}})
                 /\ \A e \in 1..Len(resp.errors) :
                       ~(/\ ValidPk(resp.table, items[resp.errors[e].idx].pk)
                         /\ ApplicableColumns(resp.table, items[resp.errors[e].idx]) = {})

\* a row that names the key and an unknown column is skipped, the next row,
\* which also names a column of the table, is sent
C15_Witness ==
    /\ resp.op = "save_rows" /\ resp.status = "200" /\ resp.ok
    /\ resp.table = T_T
    /\ Len(resp.payload.m.rows.items) = 2
    /\ resp.payload.m.rows.items[1].columns = Dict([id |-> IntV("2"), zz |-> IntV("7")])
    /\ Len(Updates) = 1
    /\ SetColumns(Updates[1].sql) = <<"v">>
    /\ WhereColumns(Updates[1].sql) = <<"id">>
    /\ 1 \in DOMAIN rows /\ resp.count = 1

\* the items of the batch of a save or delete request, and the key mapping
\* of the item at position i
BatchItems ==
    IF resp.op = "save_rows" THEN resp.payload.m.rows.items ELSE resp.payload.m.pks.items
KeyOf(i) == IF resp.op = "save_rows" THEN BatchItems[i].pk ELSE BatchItems[i]
\* the positions of the items that pass validation and have something to send
AcceptedItems ==
    SelectSeq([i \in 1..Len(BatchItems) |-> i],
              LAMBDA i : /\ ValidPk(resp.table, KeyOf(i))
                         /\ resp.op = "save_rows" => ApplicableColumns(resp.table, BatchItems[i]) # {})
SentStatements == IF resp.op = "save_rows" THEN Updates ELSE Deletes
\* the parameters of the WHERE clause: the last ones of the statement
WhereParams(stmt, n) == SubSeq(stmt.params, Len(stmt.params) - n + 1, Len(stmt.params))

\* C16: in table_save_rows and table_delete_rows an item whose key is not a
\* mapping or lacks a primary-key column is put on the error list and sends
\* no statement, and the scan goes on: the statements sent are those of the
\* accepted items of the whole batch, in order, each with the key of its item.
C16_InvalidKeySkipped ==
    (resp.op \in {"save_rows", "delete_rows"} /\ resp.status = "200" /\ PkOf(resp.table) # << >>) =>
        /\ \A i \in 1..Len(BatchItems) :
              ~ValidPk(resp.table, KeyOf(i)) =>
                  InSeq([idx |-> i, error |-> "Invalid or missing primary key"], resp.errors)
        /\ Len(SentStatements) = Len(AcceptedItems)
        /\ \A n \in 1..Len(SentStatements) :
              WhereParams(SentStatements[n], Len(PkOf(resp.table)))
                  = [j \in 1..Len(PkOf(resp.table)) |-> KeyOf(AcceptedItems[n]).m[PkOf(resp.table)[j]]]

\* a key under another name first, then a good key: the second item is sent
\* and the batch is rolled back
C16_Witness ==
    /\ resp.op = "delete_rows" /\ resp.status = "200"
    /\ resp.table = T_T
    /\ Len(BatchItems) = 2
    /\ BatchItems[1] = Dict([zz |-> IntV("1")])
    /\ resp.errors = <<[idx |-> 1, error |-> "Invalid or missing primary key"]>>
    /\ Len(Deletes) = 1
    /\ Deletes[1].params = <<IntV("1")>>
    /\ 1 \in DOMAIN rows

\* C17: table_save_rows and table_delete_rows on a table without a primary
\* key answer "Table has no primary key" whatever the request body is, also
\* one that is not JSON, and send no UPDATE and no DELETE.
C17_NoPrimaryKeyRefused ==
    (resp.op \in {"save_rows", "delete_rows"} /\ PkOf(resp.table) = << >>) =>
        /\ resp.status = "Table has no primary key"
        /\ ~resp.ok
        /\ Updates = << >>
        /\ Deletes = << >>

\* a delete on the table without a key with a body that is not JSON
C17_Witness ==
    /\ resp.op = "delete_rows"
    /\ resp.table = T_NP
    /\ resp.payload = InvalidJson
    /\ resp.status = "Table has no primary key"
    /\ log # << >>

(***************************************************************************)
(* Specification of the grid requests of one user on the four tables, with *)
(* page sizes, page numbers, sort columns, directions and filters that are *)
(* absent, out of range or unknown                                         *)
(***************************************************************************)
GridInit ==
    /\ store = [pk \in Pks |-> IF pk = 1 THEN Cfg(1, 1, "d1", "h1", "pw1") ELSE NoCfg]
    /\ nextPk = 2
    /\ databases = [a \in Aliases |-> IF a = DEFAULT THEN DefaultDescriptor ELSE Absent]
    /\ handles = [a \in Aliases |-> NoHandle]
    /\ cache = << >>
    /\ pgTables = (S_S :> {T_T, T_XT, T_NP, T_Q})
    /\ \E present \in SUBSET Ids : rows \in [present -> StoredValues]
    /\ seq = MaxId + 1
    /\ log = << >>
    /\ resp = Idle
    /\ inflight = NoRequest

PlainQuery ==
    [refresh |-> FALSE, sort |-> "", order |-> "", filters |-> NoKeys, per_page |-> "", page |-> ""]
PageSizeInputs == {"", "0", "-1", "1", "7", "10000", "x"}
PageNumberInputs == {"", "0", "-1", "1", "2"}
SortInputs == {"", "v", "id", "b", "zz"}
OrderInputs == {"", "asc", "desc", "DESC", "x"}
FilterInputs ==
    {NoKeys, [v |-> " 7 "], [v |-> " "], [zz |-> "7", id |-> "1"], [id |-> "1", v |-> "7"],
     [a |-> "7", b |-> "abc", k |-> "abc", w |-> " "]}
PagingQueries ==
    {[PlainQuery EXCEPT !.per_page = n, !.page = p] : n \in PageSizeInputs, p \in PageNumberInputs}
SortQueries ==
    {[PlainQuery EXCEPT !.sort = c, !.order = o, !.refresh = r] :
        c \in SortInputs, o \in OrderInputs, r \in BOOLEAN}
FilterQueries == {[PlainQuery EXCEPT !.filters = f, !.per_page = "1"] : f \in FilterInputs}

GridNext ==
    \/ resp = Idle /\ \E table \in AllTables, query \in PagingQueries \cup SortQueries \cup FilterQueries :
          TableGrid(1, A1, S_S, table, query)
    \/ Deliver

SpecGrid == GridInit /\ [][GridNext]_vars

(***************************************************************************)
(* Properties of table_grid                                                *)
(***************************************************************************)
IsPageSelect(stmt) == stmt.sql[1] = Lit("SELECT * FROM ")
IsCount(stmt) == stmt.sql[1] = Lit("SELECT COUNT(*) FROM ")
PageSelects == SelectSeq(log, IsPageSelect)
Counts == SelectSeq(log, IsCount)
\* the parameters of LIMIT and OFFSET: the last two of the page SELECT
LimitOf(stmt) == stmt.params[Len(stmt.params) - 1]
OffsetOf(stmt) == stmt.params[Len(stmt.params)]

\* C18: for every requested page size, also 0, a negative one and 10000, the
\* LIMIT of the page SELECT of table_grid lies in 1..200, and for every
\* requested page number, also 0 and a negative one, the page is at least 1
\* and the OFFSET is (page - 1) times the LIMIT.
C18_PageNormalised ==
    resp.op = "grid" =>
        \A i \in 1..Len(PageSelects) :
            /\ LimitOf(PageSelects[i]) \in 1..200
            /\ resp.payload.page \in {"", "0", "-1", "1"} => OffsetOf(PageSelects[i]) = 0
            /\ resp.payload.page = "2" => OffsetOf(PageSelects[i]) = LimitOf(PageSelects[i])

\* the column and the direction after ORDER BY in the page SELECT
OrderByColumn(sql) == sql[PieceAt(sql, Lit(" ORDER BY ")) + 1].s
OrderByDirection(sql) == sql[PieceAt(sql, Lit(" ORDER BY ")) + 3].s

\* the sort column the request should get on a table
ExpectedOrderColumn(table, sort) ==
    IF InSeq(sort, Names(ColumnsOf(table))) THEN sort
    ELSE IF PkOf(table) # << >> THEN PkOf(table)[1]
    ELSE ColumnsOf(table)[1].name

\* C19: the page SELECT of table_grid orders by the requested sort column
\* when it is a column of the table, else by the first primary-key column,
\* else, on a table without primary key, by the first declared column; the
\* direction is the requested one when it is asc or desc (in any case of
\* letters) and ASC otherwise.
C19_OrderBy ==
    resp.op = "grid" =>
        \A i \in 1..Len(PageSelects) :
            /\ OrderByColumn(PageSelects[i].sql) = ExpectedOrderColumn(resp.table, resp.payload.sort)
            /\ OrderByDirection(PageSelects[i].sql)
                  = IF resp.payload.order \in {"desc", "DESC"} THEN "DESC" ELSE "ASC"

\* an unknown sort column on the table without primary key, direction "x"
C19_Witness ==
    /\ resp.op = "grid" /\ resp.status = "200"
    /\ resp.table = T_NP
    /\ resp.payload.sort = "zz" /\ resp.payload.order = "x"
    /\ Len(PageSelects) = 1
    /\ OrderByColumn(PageSelects[1].sql) = "a"
    /\ OrderByDirection(PageSelects[1].sql) = "ASC"

\* the WHERE clause of a page SELECT and of a COUNT
PageWhere(sql) ==
    SubSeq(sql, PieceAt(sql, Lit(" WHERE ")) + 1, PieceAt(sql, Lit(" ORDER BY ")) - 1)
CountWhere(sql) == SubSeq(sql, PieceAt(sql, Lit(" WHERE ")) + 1, Len(sql))

\* the filter value the request gives for a column, without blanks around it
GivenFilter(col) ==
    IF col \notin DOMAIN resp.payload.filters THEN ""
    ELSE IF resp.payload.filters[col] = " " THEN ""
    ELSE IF resp.payload.filters[col] = " 7 " THEN "7"
    ELSE resp.payload.filters[col]
\* the columns of the table, in declared order, that carry a filter
FilteredColumns(table) == SelectSeq(Names(ColumnsOf(table)), LAMBDA c : GivenFilter(c) # "")

\* C20: the WHERE clause of the page SELECT of table_grid holds one
\* predicate for each column of the table with a non-empty filter value and
\* none for any other filter key, joined by AND, and "1=1" when no filter
\* applies; the COUNT has the same condition and the same parameters.
C20_FilterWhere ==
    resp.op = "grid" =>
        /\ \A i \in 1..Len(PageSelects) :
              LET where == PageWhere(PageSelects[i].sql)
                  cols == FilteredColumns(resp.table)
              IN /\ QuotedNames(where) = cols
                 /\ Len(where) = IF cols = << >> THEN 1 ELSE 4 * Len(cols) - 1
                 /\ cols = << >> => where = <<Lit("1=1")>>
                 /\ \A j \in 1..Len(cols) :
                       /\ where[4 * j - 2] = Lit("::text ILIKE ")
                       /\ where[4 * j - 1] = Placeholder
                       /\ j < Len(cols) => where[4 * j] = Lit(" AND ")
                       /\ PageSelects[i].params[j] = Pattern(GivenFilter(cols[j]))
                 /\ Len(PageSelects[i].params) = Len(cols) + 2
        /\ \A i \in 1..Len(Counts) :
              /\ Len(PageSelects) = Len(Counts)
              /\ CountWhere(Counts[i].sql) = PageWhere(PageSelects[i].sql)
              /\ Counts[i].params = SubSeq(PageSelects[i].params, 1, Len(PageSelects[i].params) - 2)

\* filters for an unknown column and for the key: one predicate, on the key
C20_Witness ==
    /\ resp.op = "grid" /\ resp.status = "200"
    /\ resp.table = T_T
    /\ resp.payload.filters = [zz |-> "7", id |-> "1"]
    /\ Len(PageSelects) = 1 /\ Len(Counts) = 1
    /\ QuotedNames(PageWhere(PageSelects[1].sql)) = <<"id">>
    /\ Counts[1].params = <<Pattern("1")>>
    /\ resp.total = 1

(***************************************************************************)
(* Specification of the introspection cache: listings with and without     *)
(* refresh, schema_has_tables, create_schema and delete_schema on names    *)
(* that exist or not, and DDL issued outside the editor                    *)
(***************************************************************************)
S_PGX == <<"p", "g", "x">>
CreateNames == {S_R, S_PGX, <<" ", "s", " ">>, <<" ", "p", "g", "_", "x">>}
\* s:x keeps its table until the schema is dropped
DropNames == {S_S, S_R, S_SX}
CacheSchemas == {S_S, S_R, S_SX}

HasTables(alias, schema) ==
    /\ Registered(alias)
    /\ \E a \in {SchemaHasTables(W0, pgTables, alias, schema)} :
          /\ Commit(a.w)
          /\ resp' = [op |-> "schema_has_tables", alias |-> alias, schema |-> schema, refresh |-> TRUE,
                      r |-> a.r, hits |-> a.w.hits]
    /\ UNCHANGED <<store, nextPk, pgTables, rows, seq>>

\* DROP SCHEMA ... CASCADE issued by another client of the server
PgDropSchemaOutside(schema) ==
    /\ PgHasSchema(pgTables, schema)
    /\ pgTables' = PgDropSchema(pgTables, schema)
    /\ rows' = RowsAfter(pgTables', rows)
    /\ seq' = SeqAfter(pgTables', seq)
    /\ log' = << >>
    /\ resp' = [op |-> "pg_drop_schema"]
    /\ UNCHANGED <<store, nextPk, databases, handles, cache, inflight>>

CacheNext ==
    \/ \E refresh \in BOOLEAN : ListSchemas(A1, refresh)
    \/ \E schema \in CacheSchemas, refresh \in BOOLEAN : ListTables(A1, schema, refresh)
    \/ \E schema \in CacheSchemas : HasTables(A1, schema)
    \/ \E name \in CreateNames : DoCreateSchema(A1, name)
    \/ \E name \in DropNames, force \in BOOLEAN : DoDeleteSchema(A1, name, force)
    \/ \E table \in TablesIn(S_S) : PgCreateTable(S_S, table)
    \/ \E table \in TablesIn(S_S) : PgDropTable(S_S, table)
    \/ PgDropSchemaOutside(S_R)

SpecCache == IntroInit /\ [][CacheNext]_vars

(***************************************************************************)
(* Properties of the introspection cache                                   *)
(***************************************************************************)
SchemasKey(alias) == CacheKey(EDITOR, <<K_SCHEMAS, alias>>)
TablesKey(alias, schema) == CacheKey(EDITOR, <<K_TABLES, alias, schema>>)

\* C21: after create_schema returned success the cache holds no schema list
\* of the alias, and a get_schemas(alias, refresh=False) that comes next
\* queries the database and returns a list that contains the name.
C21_CreateThenList ==
    [][(resp.op = "create_schema" /\ resp.r.ok)
       => /\ ~CacheHas(cache, SchemasKey(resp.alias))
          /\ (resp'.op = "get_schemas" /\ resp'.alias = resp.alias /\ ~resp'.refresh)
             => (log' # << >> /\ InSeq(Strip(resp.name), resp'.r))]_vars

ListingOps == {"get_schemas", "get_tables", "schema_has_tables"}
\* the cache key of the scope of a listing call
ScopeKey(r) ==
    IF r.op = "get_schemas" THEN SchemasKey(r.alias) ELSE TablesKey(r.alias, r.schema)
\* what the database holds for the scope of a listing call
CurrentNames(r, pg) ==
    IF r.op = "get_schemas" THEN {n \in DOMAIN pg : ListedSchema(n)}
    ELSE IF PgHasSchema(pg, r.schema) THEN pg[r.schema]
    ELSE {}
IsListOf(q, S) == SeqToSet(q) = S /\ Len(q) = Cardinality(S)

\* C22: get_schemas and get_tables with refresh=True, and schema_has_tables
\* always, query the database and answer with what it holds now, also when
\* the cache has an entry for the scope, and leave that entry, and no other,
\* set to the list they read; with refresh=False and an entry present, also
\* an empty list, they return the entry and send no query.
C22_RefreshAndHit ==
    [][resp'.op \in ListingOps =>
        /\ resp'.refresh =>
              /\ log' # << >>
              /\ ScopeKey(resp') \in DOMAIN cache'
              /\ IsListOf(cache'[ScopeKey(resp')].val, CurrentNames(resp', pgTables))
              /\ resp'.r = IF resp'.op = "schema_has_tables"
                           THEN CurrentNames(resp', pgTables) # {}
                           ELSE cache'[ScopeKey(resp')].val
              /\ DOMAIN cache' = DOMAIN cache \cup {ScopeKey(resp')}
              /\ \A k \in DOMAIN cache \ {ScopeKey(resp')} : cache'[k] = cache[k]
        /\ (~resp'.refresh /\ ScopeKey(resp') \in DOMAIN cache) =>
              /\ resp'.r = cache[ScopeKey(resp')].val
              /\ log' = << >>
              /\ cache' = cache]_vars

\* an empty table list from the cache while the schema holds tables again
C22_Witness ==
    /\ resp.op = "get_tables" /\ ~resp.refresh
    /\ resp.schema = S_S
    /\ resp.r = << >>
    /\ log = << >>
    /\ PgHasSchema(pgTables, S_S) /\ pgTables[S_S] # {}
    /\ SchemasKey(A1) \in DOMAIN cache

\* C23: delete_schema with force that succeeds on a schema that held tables
\* leaves no table list of the schema in the cache, and a get_tables of the
\* schema with refresh=False that comes next returns the empty list.
C23_DropThenListTables ==
    [][/\ (/\ resp'.op = "delete_schema" /\ resp'.force /\ resp'.r.ok
           /\ PgHasSchema(pgTables, Strip(resp'.name))
           /\ pgTables[Strip(resp'.name)] # {})
          => TablesKey(resp'.alias, Strip(resp'.name)) \notin DOMAIN cache'
       /\ (/\ resp.op = "delete_schema" /\ resp.force /\ resp.r.ok
           /\ TablesKey(resp.alias, Strip(resp.name)) \notin DOMAIN cache
           /\ resp'.op = "get_tables" /\ resp'.alias = resp.alias
           /\ resp'.schema = Strip(resp.name) /\ ~resp'.refresh)
          => (resp'.r = << >> /\ log' # << >>)]_vars

\* the schema s:x, whose table nothing but the drop removes, is gone and its
\* table list was read again and is empty
C23_Witness ==
    /\ resp.op = "get_tables" /\ ~resp.refresh
    /\ resp.schema = S_SX
    /\ resp.r = << >>
    /\ log # << >>
    /\ ~PgHasSchema(pgTables, S_SX)
    /\ cache[TablesKey(A1, S_SX)].val = << >>

(***************************************************************************)
(* editor/db_manager.py: test_database_connection.  The connection it      *)
(* opens with psycopg2.connect is its own: never opened, open or closed.   *)
(***************************************************************************)
\* where the server may fail the call
TestFaults == {"none", "connect", "select 1", "schema query"}
\* str(e) of the errors psycopg2 raises
CONNECT_FAILED == "could not connect to server"
QUERY_FAILED == "server closed the connection unexpectedly"
\* f'Schema "{schema}" does not exist in database "{database}".'
SCHEMA_MISSING == "Schema does not exist in database"

Probe(ok, error, conn, sent) == [ok |-> ok, error |-> error, conn |-> conn, sent |-> sent]

\* a return that leaves the connection as it is
TestFinallyNothing(probe) == probe

\* finally: conn.close()
TestFinally(probe) == [probe EXCEPT !.conn = "closed"]

TestDatabaseConnection(pg, database, schema, fault) ==
    IF fault = "connect" THEN Probe(FALSE, CONNECT_FAILED, "never opened", << >>)
    ELSE IF fault = "select 1"
    THEN TestFinally(Probe(FALSE, QUERY_FAILED, "open", <<"SELECT 1">>))
    ELSE IF Len(schema) = 0
    THEN TestFinally(Probe(TRUE, "None", "open", <<"SELECT 1">>))
    ELSE IF fault = "schema query"
    THEN TestFinally(Probe(FALSE, QUERY_FAILED, "open", <<"SELECT 1", "SELECT schema_name">>))
    ELSE IF ~PgHasSchema(pg, schema)
    THEN TestFinally(Probe(FALSE, SCHEMA_MISSING, "open", <<"SELECT 1", "SELECT schema_name">>))
    ELSE TestFinally(Probe(TRUE, "None", "open", <<"SELECT 1", "SELECT schema_name">>))

DoTestConnection(database, schema, fault) ==
    /\ Commit(W0)
    /\ resp' = [op |-> "test_connection", database |-> database, schema |-> schema, fault |-> fault,
                r |-> TestDatabaseConnection(pgTables, database, schema, fault)]
    /\ UNCHANGED <<store, nextPk, pgTables, rows, seq>>

(***************************************************************************)
(* Specification of connection tests made while the registry changes and   *)
(* live connections are open                                               *)
(***************************************************************************)
TestNext ==
    \/ \E user \in Users, alias \in Aliases : DoEnsureConnection(user, alias)
    \/ \E alias \in Aliases, close \in CloseOutcomes : DoRemoveConnection(alias, close)
    \/ \E alias \in Aliases : ListSchemas(alias, TRUE)
    \/ \E database \in DbNames, schema \in {EMPTY, S_S, S_R}, fault \in TestFaults :
          DoTestConnection(database, schema, fault)

SpecTest == RegistryInit /\ [][TestNext]_vars

\* the server failed a step the call came to: the schema query is sent only
\* for a non-empty schema
TestFailed(r) ==
    r.fault \in {"connect", "select 1"} \/ (r.fault = "schema query" /\ Len(r.schema) > 0)

\* C24: test_database_connection leaves the registry, the live wrappers and
\* their connections as they were; on every return after it connected
\* (success, schema not found, failed query) its own connection is closed;
\* a missing schema gives a failure whose message is not that of a
\* connection or query failure.
C24_TestConnectionFrame ==
    [][resp'.op = "test_connection" =>
        /\ databases' = databases
        /\ handles' = handles
        /\ cache' = cache
        /\ resp'.r.conn = IF resp'.fault = "connect" THEN "never opened" ELSE "closed"
        /\ (~TestFailed(resp') /\ Len(resp'.schema) > 0 /\ ~PgHasSchema(pgTables, resp'.schema))
           => (/\ ~resp'.r.ok
               /\ resp'.r.error = SCHEMA_MISSING
               /\ resp'.r.error \notin {CONNECT_FAILED, QUERY_FAILED})
        /\ TestFailed(resp') => (~resp'.r.ok /\ resp'.r.error \in {CONNECT_FAILED, QUERY_FAILED})
        /\ resp'.r.ok <=> (/\ ~TestFailed(resp')
                           /\ (Len(resp'.schema) = 0 \/ PgHasSchema(pgTables, resp'.schema)))]_vars

\* the schema query failed while a live connection of the registry is open
C24_Witness ==
    /\ resp.op = "test_connection"
    /\ resp.fault = "schema query"
    /\ ~resp.r.ok /\ resp.r.conn = "closed"
    /\ resp.r.sent = <<"SELECT 1", "SELECT schema_name">>
    /\ handles[A1] # NoHandle /\ handles[A1].connection # NotConnected
    /\ databases[A1] # Absent

(***************************************************************************)
(* editor/models.py: DatabaseConfig.save of a new config, step by step.    *)
(* Each super().save() is a statement of its own (autocommit); a row whose *)
(* alias is empty belongs to a save that has not made its second step.     *)
(***************************************************************************)
ALIAS_TAKEN == "UNIQUE constraint failed: editor_databaseconfig.user_id, editor_databaseconfig.alias"
DATABASE_TAKEN == "UNIQUE constraint failed: unique_user_database_schema"

\* the constraints of Meta as the database checks them on a written row
UniqueViolation(st, pk, cfg) ==
    IF \E o \in Live(st) \ {pk} : st[o].user = cfg.user /\ st[o].alias = cfg.alias
    THEN ALIAS_TAKEN
    ELSE IF \E o \in Live(st) \ {pk} :
              st[o].user = cfg.user /\ st[o].database = cfg.database /\ st[o].schema = cfg.schema
    THEN DATABASE_TAKEN
    ELSE "None"

\* the instance a new config is saved from: no pk yet, alias ''
NewConfig(user, pk, name, database) ==
    [Cfg(user, pk, database, "h1", "pw1") EXCEPT !.name = name, !.alias = EMPTY]

\* line 78: super().save(*args, **kwargs) inserts the row and sets self.pk
SaveInsert(user, name, database) ==
    /\ nextPk <= MaxPk
    /\ \E error \in {UniqueViolation(store, nextPk, NewConfig(user, nextPk, name, database))} :
       IF error = "None"
       THEN /\ store' = [store EXCEPT ![nextPk] = NewConfig(user, nextPk, name, database)]
            /\ nextPk' = nextPk + 1
            /\ resp' = [op |-> "save_new", step |-> "insert", user |-> user, pk |-> nextPk,
                        status |-> "saved"]
       ELSE /\ resp' = [op |-> "save_new", step |-> "insert", user |-> user, pk |-> NewInstance,
                        status |-> error]
            /\ UNCHANGED <<store, nextPk>>
    /\ log' = << >>
    /\ UNCHANGED <<databases, handles, cache, pgTables, rows, seq, inflight>>

\* lines 79-81: self.alias = f"user_{self.user_id}_db_{self.pk}";
\* super().save(update_fields=['alias'])
SaveAlias(pk) ==
    /\ store[pk] # NoCfg
    /\ store[pk].alias = EMPTY
    /\ store' = [store EXCEPT ![pk].alias = AliasOf(store[pk].user, pk)]
    /\ resp' = [op |-> "save_new", step |-> "alias", user |-> store[pk].user, pk |-> pk,
                status |-> "saved"]
    /\ log' = << >>
    /\ UNCHANGED <<nextPk, databases, handles, cache, pgTables, rows, seq, inflight>>

(***************************************************************************)
(* Specification of the config store: saves of new configs by two owners,  *)
(* whose steps interleave, and deletes                                     *)
(***************************************************************************)
StoreInit ==
    /\ store = [pk \in Pks |-> NoCfg]
    /\ nextPk = 1
    /\ databases = [a \in Aliases |-> IF a = DEFAULT THEN DefaultDescriptor ELSE Absent]
    /\ handles = [a \in Aliases |-> NoHandle]
    /\ cache = << >>
    /\ pgTables = [n \in SchemaNames |-> TablesIn(n)]
    /\ rows = << >>
    /\ seq = 1
    /\ log = << >>
    /\ resp = Idle
    /\ inflight = NoRequest

StoreNext ==
    \/ \E user \in Users, name \in DbNames, database \in DbNames : SaveInsert(user, name, database)
    \/ \E pk \in Pks : SaveAlias(pk)

SpecStore == StoreInit /\ [][StoreNext]_vars

\* C25: in every state of the config store, also between the steps of a
\* save of a new config and with saves of several new configs under way,
\* every stored config has a non-empty alias that no other stored config
\* has, and no save of a new config fails on the alias of another save.
C25_AliasAlwaysUnique ==
    /\ \A pk \in Live(store) :
          /\ store[pk].alias # EMPTY
          /\ \A o \in Live(store) \ {pk} : store[o].alias # store[pk].alias
    /\ ~(resp.op = "save_new" /\ resp.status = ALIAS_TAKEN)

(***************************************************************************)
(* Specification of _coerce_value as a function: a value of a JSON payload *)
(* or a value it returned, and a data type of each family, then the        *)
(* function applied once and once more                                     *)
(***************************************************************************)
CoerceInputs ==
    {None, StrV(""), StrV(" "), BoolV("True"), BoolV("False"),
     IntV("0"), IntV("1"), IntV("7"), FloatV("3.14"), FloatV("7.0"), FloatV("inf"),
     StrV("true"), StrV("TRUE"), StrV("on"), StrV(" on "), StrV("F"), StrV("1"), StrV(" 7 "),
     StrV("3.14"), StrV("12.50"), StrV("1e400"), StrV("2024-01-01"), StrV("abc")}
CoerceTypes ==
    {"None", "date", "timestamp with time zone", "time without time zone", "boolean",
     "integer", "bigint", "real", "double precision", "numeric", "decimal", "text"}

\* _coerce_value applied to what _coerce_value returned; an exception of the
\* first call leaves nothing to apply it to
CoerceAgain(once, dt) == IF once = Raised THEN Raised ELSE CoerceValue(once, dt)

CoerceInit ==
    /\ store = [pk \in Pks |-> NoCfg]
    /\ nextPk = 1
    /\ databases = [a \in Aliases |-> IF a = DEFAULT THEN DefaultDescriptor ELSE Absent]
    /\ handles = [a \in Aliases |-> NoHandle]
    /\ cache = << >>
    /\ pgTables = [n \in SchemaNames |-> TablesIn(n)]
    /\ rows = << >>
    /\ seq = 1
    /\ log = << >>
    /\ \E val \in CoerceInputs, dt \in CoerceTypes : resp = [op |-> "value", val |-> val, dt |-> dt]
    /\ inflight = NoRequest

Coerce ==
    /\ resp.op = "value"
    /\ \E once \in {CoerceValue(resp.val, resp.dt)} :
          resp' = [op |-> "coerce", val |-> resp.val, dt |-> resp.dt, once |-> once,
                   twice |-> CoerceAgain(once, resp.dt)]
    /\ UNCHANGED <<store, nextPk, databases, handles, cache, pgTables, rows, seq, log, inflight>>

CoerceNext == Coerce

SpecCoerce == CoerceInit /\ [][CoerceNext]_vars

\* C26: _coerce_value is idempotent: for a data type of every family and
\* every value (null, empty and blank texts, booleans, integers, floats,
\* texts of booleans, numbers, a date, and text that does not parse),
\* coercing the coerced value again gives the coerced value.
C26_CoerceIdempotent ==
    resp.op = "coerce" => resp.twice = resp.once

\* " 7 " for an integer column became the integer 7 and stays it
C26_Witness ==
    /\ resp.op = "coerce"
    /\ resp.val = StrV(" 7 ") /\ resp.dt = "integer"
    /\ resp.once = IntV("7")
    /\ resp.twice = IntV("7")

(***************************************************************************)
(* Introspection queries the server answers with an error: cursor.execute  *)
(* raises OperationalError with the server's message.  The fault of a      *)
(* request names the query that fails whenever it is sent.                 *)
(***************************************************************************)
PG_ERROR == "server closed the connection unexpectedly"
QueryFaults == {"none", "schemas", "tables"}

\* what a call returned, or the message of the exception it raised
Returned(a) == [w |-> a.w, r |-> a.r, error |-> ""]
RaisedError(w, msg) == [w |-> w, r |-> << >>, error |-> msg]

\* get_schemas: a cache hit sends nothing; the failing query raises out of
\* the function before cache.set
GetSchemasFaulty(w, pg, alias, refresh, fault) ==
    IF fault = "schemas" /\ ~(~refresh /\ CacheHas(w.cache, CacheKey(EDITOR, <<K_SCHEMAS, alias>>)))
    THEN RaisedError(Execute(w, alias, <<Lit("SELECT schema_name FROM information_schema.schemata")>>,
                             << >>), PG_ERROR)
    ELSE Returned(GetSchemas(w, pg, alias, refresh))

\* get_tables: the same
GetTablesFaulty(w, pg, alias, schema, refresh, fault) ==
    IF fault = "tables" /\ ~(~refresh /\ CacheHas(w.cache, CacheKey(EDITOR, <<K_TABLES, alias, schema>>)))
    THEN RaisedError(Execute(w, alias,
                             <<Lit("SELECT table_name FROM information_schema.tables WHERE table_schema = "),
                               Placeholder>>, <<schema>>), PG_ERROR)
    ELSE Returned(GetTables(w, pg, alias, schema, refresh))

RECURSIVE SchemaInfoFaulty(_, _, _, _, _, _, _)
\* 'for schema in schemas': try: tables = get_tables(...); has_tables = len(tables) > 0
\* except Exception: has_tables = False.  skipped collects the schemas whose
\* exception the loop caught.
SchemaInfoFaulty(w, pg, alias, schemas, acc, skipped, fault) ==
    LET Listed(a) ==
            SchemaInfoFaulty(a.w, pg, alias, Tail(schemas),
                             Append(acc, [name |-> schemas[1],
                                          has_tables |-> a.error = "" /\ Len(a.r) > 0]),
                             IF a.error = "" THEN skipped ELSE Append(skipped, schemas[1]),
                             fault)
    IN IF Len(schemas) = 0 THEN [w |-> w, r |-> acc, skipped |-> skipped]
       ELSE Listed(GetTablesFaulty(w, pg, alias, schemas[1], FALSE, fault))

\* schema_list while the server may fail a query
SchemaListFaulty(user, alias, refresh, fault) ==
    LET head == [op |-> "schema_list", user |-> user, alias |-> alias, refresh |-> refresh,
                 fault |-> fault]
        none == [detail |-> "", schema_info |-> << >>, skipped |-> << >>]
    IN /\ UNCHANGED <<store, nextPk, pgTables, rows, seq>>
       /\ IF OwnedPks(store, user, alias) = {}
          THEN Commit(W0) /\ resp' = head @@ [status |-> "404"] @@ none
          ELSE \E a \in {GetSchemasFaulty(EnsureDatabaseConnection(W0, store, user, alias), pgTables,
                                          alias, refresh, fault)} :
               IF a.error # ""
               THEN Commit(a.w) /\ resp' = head @@ [status |-> "502", detail |-> a.error] @@ none
               ELSE \E b \in {SchemaInfoFaulty(a.w, pgTables, alias, a.r, << >>, << >>, fault)} :
                    /\ Commit(b.w)
                    /\ resp' = head @@ [status |-> "200", detail |-> "", schema_info |-> b.r,
                                        skipped |-> b.skipped]

\* get_tables called on a registered alias while the server may fail the query
ListTablesFaulty(alias, schema, refresh, fault) ==
    /\ Registered(alias)
    /\ \E a \in {GetTablesFaulty(W0, pgTables, alias, schema, refresh, fault)} :
          /\ Commit(a.w)
          /\ resp' = [op |-> "get_tables", alias |-> alias, schema |-> schema, refresh |-> refresh,
                      fault |-> fault, r |-> a.r, error |-> a.error]
    /\ UNCHANGED <<store, nextPk, pgTables, rows, seq>>

FaultsNext ==
    \/ \E user \in Users, alias \in ViewAliases, refresh \in BOOLEAN, fault \in QueryFaults :
          SchemaListFaulty(user, alias, refresh, fault)
    \/ \E schema \in ViewSchemas, refresh \in BOOLEAN, fault \in QueryFaults :
          ListTablesFaulty(A1, schema, refresh, fault)
    \/ \E table \in ViewTables : PgCreateTable(S_S, table)
    \/ \E table \in ViewTables : PgDropTable(S_S, table)
    \/ \E user \in Users, method \in {"GET", "POST"} : SchemaCreate(user, A1, method, S_R)

SpecFaults == ViewsInit /\ [][FaultsNext]_vars

\* the request sent the query that its fault fails
SentFailing(r, sent) ==
    \E i \in 1..Len(sent) :
        \/ r.fault = "schemas" /\ Len(sent[i].params) = 0
        \/ r.fault = "tables" /\ Len(sent[i].params) = 1

\* C27: an error of an introspection query reaches the caller as a failure
\* that carries the server's message: get_tables raises it, schema_list
\* answers 502 with the message as detail, and no schema is reported without
\* tables because the query for its tables failed.
C27_IntrospectionErrorSurfaced ==
    /\ (resp.op = "get_tables" /\ SentFailing(resp, log)) => resp.error = PG_ERROR
    /\ (resp.op = "schema_list" /\ SentFailing(resp, log)) =>
          /\ resp.status = "502"
          /\ resp.detail = PG_ERROR
          /\ resp.skipped = << >>

(***************************************************************************)
(* Specification of get_schemas racing create_schema and delete_schema:    *)
(* one get_schemas runs in a thread of its own and stops between its query *)
(* and its cache.set (the cache is shared by the threads of the process)   *)
(***************************************************************************)
\* introspection.py lines 15-30: no cached list was used, the query ran and
\* its rows were fetched
GetSchemasBegin(alias, refresh) ==
    /\ inflight = NoRequest
    /\ Registered(alias)
    /\ refresh \/ ~CacheHas(cache, CacheKey(EDITOR, <<K_SCHEMAS, alias>>))
    /\ inflight' = [op |-> "get_schemas", alias |-> alias, refresh |-> refresh,
                    names |-> SortNames({n \in DOMAIN pgTables : ListedSchema(n)})]
    /\ UNCHANGED <<store, nextPk, databases, handles, cache, pgTables, rows, seq, log, resp>>

\* introspection.py lines 31-32: cache.set(key, names); return names
GetSchemasFinish ==
    /\ inflight # NoRequest
    /\ cache' = CacheSet(cache, CacheKey(EDITOR, <<K_SCHEMAS, inflight.alias>>), inflight.names,
                         <<"schemas", inflight.alias>>)
    /\ inflight' = NoRequest
    /\ log' = << >>
    /\ resp' = [op |-> "get_schemas", alias |-> inflight.alias, refresh |-> inflight.refresh,
                r |-> inflight.names, hits |-> << >>]
    /\ UNCHANGED <<store, nextPk, databases, handles, pgTables, rows, seq>>

StaleNext ==
    \/ \E refresh \in BOOLEAN : GetSchemasBegin(A1, refresh)
    \/ GetSchemasFinish
    \/ \E refresh \in BOOLEAN : ListSchemas(A1, refresh)
    \/ \E name \in CreateNames : DoCreateSchema(A1, name)
    \/ \E name \in DropNames, force \in BOOLEAN : DoDeleteSchema(A1, name, force)

SpecStale == IntroInit /\ [][StaleNext]_vars

\* C28: when no get_schemas is in flight, the cached schema list of the
\* alias is absent or is the list of the schemas the database holds now:
\* a list read before a create_schema or delete_schema is not in the cache
\* after the invalidation of that call.
C28_NoStaleSchemaList ==
    inflight = NoRequest =>
        (CacheHas(cache, SchemasKey(A1)) =>
            cache[SchemasKey(A1)].val = SortNames({n \in DOMAIN pgTables : ListedSchema(n)}))

(***************************************************************************)
(* Specification of two edits of one configuration: one edit runs in a     *)
(* thread of its own and stops inside ensure_database_connection between   *)
(* the read of the configuration and the assignment of the registry entry  *)
(***************************************************************************)
EditHosts == {"h1", "h2"}
EditPasswords == {"", "pw2"}

\* database_config_edit, POST, up to db_manager.py line 30: the form was
\* saved and ensure_database_connection has read the configuration
EditSaveBegin(user, pk, name, host, database, password, reachable) ==
    /\ inflight = NoRequest
    /\ store[pk] # NoCfg /\ store[pk].user = user
    /\ FormClean(store, user, pk, name, database, "public", password, reachable) = "valid"
    /\ \E st \in {FormSave(store, user, pk, name, host, database, "public", password)} :
          /\ store' = st
          /\ inflight' = [user |-> user, alias |-> st[pk].alias, db_config |-> st[pk]]
    /\ UNCHANGED <<nextPk, databases, handles, cache, pgTables, rows, seq, log, resp>>

EditsNext ==
    \/ \E user \in Users, host \in EditHosts, database \in DbNames, password \in EditPasswords :
          \E reachable \in BOOLEAN : EditSaveBegin(user, 1, "n1", host, database, password, reachable)
    \/ EnsureFinish
    \/ \E user \in Users, host \in EditHosts, database \in DbNames, password \in EditPasswords :
          \E reachable \in BOOLEAN : DatabaseConfigEdit(user, 1, "n1", host, database, password, reachable)

SpecEdits == ViewsInit /\ [][EditsNext]_vars

\* C29: when no edit is in flight, the registry entry of the alias of an
\* edited configuration is the connection descriptor of the configuration
\* as it is stored: the descriptor of the last save, whole.
C29_LastWriteWins ==
    inflight = NoRequest =>
        (databases[A1] # Absent => databases[A1] = GetConnectionConfig(store[1]))

\* C30: a table_grid request for a page number of at least 1 and a positive
\* page size, whose page SELECT and COUNT both ran, is answered with a
\* result (status 200), also when the page lies beyond the last page of the
\* matching rows.
C30_PageBeyondLast ==
    (/\ resp.op = "grid"
     /\ resp.payload.page \in {"1", "2"}
     /\ resp.payload.per_page \in {"", "1", "7"}
     /\ Len(PageSelects) = 1
     /\ Len(Counts) = 1) => resp.status = "200"

====
